---- MODULE Spec2Model ----
(***************************************************************************)
(* Corpus Sync Engine of the RAG document chat server: the upload ledger   *)
(* (.upload-tracker.json), the single-document uploader with its           *)
(* retry/backoff/poll protocol, the directory diff and the upload loop of  *)
(* uploadDirectoryToRagStore, the remote store directory (list, get by     *)
(* display name, get or create, cleanup of duplicates, delete) and the     *)
(* handler of POST /api/rag-store/create with its lock.                    *)
(***************************************************************************)
EXTENDS Integers, Sequences, FiniteSets, TLC

\* ------------------------------------------------------------------------
\* Bounds of the model
\* ------------------------------------------------------------------------
MaxLedgerLen == 2   \* longest ledger sequence an initial state holds
MaxDirLen == 4      \* longest directory listing of the diff specification
MaxSyncLen == 4     \* longest directory listing of the sync specifications
MaxDocs == 2        \* the remote document counter saturates here
MaxNow == 2         \* the wall clock stops here
MaxInitialStores == 3   \* most stores an initial account holds
MaxCreates == 2     \* most stores a behaviour creates
MaxRequests == 3    \* concurrent requests of the lock specification
MaxUploads == 2     \* most files a request of the lock specification uploads

\* ------------------------------------------------------------------------
\* Program constants
\* ------------------------------------------------------------------------
maxRetries == 5
baseDelay == 2000
maxPollAttempts == 120
pollInterval == 3000
postSuccessDelay == 1500

\* ------------------------------------------------------------------------
\* Universe of names
\* ------------------------------------------------------------------------
Files == {"A.txt", "B.pdf", "C.MD"}
SyncCycle == <<"A.txt", "N.bin", "A.txt", "B.pdf">>
DirNames == Files \cup {"N.bin"}
StoreIds == {"s1", "s2"}

VARIABLES
    now,                \* wall clock read by new Date()
    tracker,            \* content of .upload-tracker.json
    listed,             \* last value returned by listDocumentsInRagStore
    directory,          \* what readdirSync(directoryPath) returns
    ingested,           \* per file: documents the remote store ingested
    isNew,              \* the store was created by the coming request
    pc,                 \* position of the server process
    ragStoreName,       \* target store of the run
    resumeMode,
    filesToUpload, skipped, successful, failed, uploadedInSession, i,
    fileName,           \* file of the uploadFileToRagStore call
    attempt, pollAttempts, op, err,
    slept, submits, polls, pollDelays, postDelays,  \* call log of the uploader
    everySubmitFailed,  \* history: no submit of this call returned a handle
    outcome,            \* history: per file, how its upload call of this run ended
    everSuccessful,     \* history: files some run reported as successful
    everFailed,         \* history: files some run reported as failed
    prevClean,          \* history: the previous run returned with failed = []
    trackerAtStart,     \* history: tracker when the run started
    doneInRun,          \* history: files whose upload was seen done in this run
    prevDone,           \* history: doneInRun of the run a crash ended
    crashed,            \* history: the previous run was ended by a crash
    repeatedAdd,        \* history: addUploadedFile met a file already recorded
    attempted,          \* history: files handed to the uploader in this run, in order
    progress,           \* the onProgress calls of the run, in order
    progressAt,         \* history: per onProgress call, what had happened to its file
    stores,             \* the file search stores of the account, in listing order
    nextStore,          \* index of the name the remote gives the next created store
    faults,             \* the remote calls that may throw in this behaviour
    forceReload,        \* req.body.forceReload of the request being served
    completion,         \* the final event written to the response
    lastCall,           \* history: the latest store directory call and its result
    prevCall,           \* history: the store directory call before it
    resolution,         \* history: what store resolution of the request did
    ragStoreCreationLock,
    waitingRequests,    \* queue of the requests parked in acquireRagStoreLock
    reqPc,              \* per request: position in the POST /api/rag-store/create handler
    arrivals,           \* history: requests in the order they called acquireRagStoreLock
    grants,             \* history: requests in the order their acquire resolved
    releases,           \* history: per request, calls of releaseRagStoreLock
    uploads             \* per request: the uploadFileToRagStore calls it has started

ledgerVars == <<now, tracker, listed>>
remoteVars == <<ingested, stores>>
storeVars == <<nextStore, faults, lastCall, prevCall>>
requestVars == <<forceReload, completion, resolution>>
lockVars == <<ragStoreCreationLock, waitingRequests, reqPc, arrivals, grants, releases,
              uploads>>
frameVars == <<directory, storeVars, requestVars, lockVars>>
runVars == <<pc, ragStoreName, resumeMode, filesToUpload, skipped, successful,
             failed, uploadedInSession, i>>
callVars == <<fileName, attempt, pollAttempts, op, err, slept, submits, polls,
              pollDelays, postDelays, everySubmitFailed>>
histVars == <<outcome, everSuccessful, everFailed, prevClean, trackerAtStart,
              doneInRun, prevDone, crashed, repeatedAdd, attempted, progress, progressAt>>
vars == <<ledgerVars, remoteVars, frameVars, isNew, runVars, callVars, histVars>>

\* ------------------------------------------------------------------------
\* Sequence helpers
\* ------------------------------------------------------------------------
Range(s) == {s[k] : k \in 1..Len(s)}

Includes(s, x) == \E k \in 1..Len(s) : s[k] = x

IsDupFree(s) == \A k, l \in 1..Len(s) : s[k] = s[l] => k = l

Min(a, b) == IF a < b THEN a ELSE b

RECURSIVE Pow2(_)
Pow2(n) == IF n = 0 THEN 1 ELSE 2 * Pow2(n - 1)

SeqsUpTo(S, n) == UNION {[1..k -> S] : k \in 0..n}

DupFreeSeqs(S, n) == {s \in SeqsUpTo(S, n) : IsDupFree(s)}

\* Array.from(new Set(arr)): insertion order, first occurrence kept
RECURSIVE ArrayFromSet(_)
ArrayFromSet(arr) ==
    IF arr = <<>> THEN <<>>
    ELSE LET front == ArrayFromSet(SubSeq(arr, 1, Len(arr) - 1))
             last == arr[Len(arr)]
         IN IF Includes(front, last) THEN front ELSE Append(front, last)

\* ------------------------------------------------------------------------
\* Upload ledger (.upload-tracker.json)
\* ------------------------------------------------------------------------
EmptyTracker == [s \in {} |-> 0]

NewEntry(t) == [uploadedFiles |-> <<>>, lastUpdate |-> t]

WithEntry(trk, s, e) == [x \in DOMAIN trk \cup {s} |-> IF x = s THEN e ELSE trk[x]]

WithoutEntry(trk, s) == [x \in DOMAIN trk \ {s} |-> trk[x]]

\* tracker[s]?.uploadedFiles || []
UploadedFilesOf(trk, s) == IF s \in DOMAIN trk THEN trk[s].uploadedFiles ELSE <<>>

loadUploadTracker(file, readOk) == IF readOk THEN file ELSE EmptyTracker

saveUploadTracker(file, trk, writeOk) == IF writeOk THEN trk ELSE file

\* a saveUploadTracker without its catch block: the write error reaches the caller
saveUploadTrackerRethrows == TRUE

\* the catch block of saveUploadTracker logs the error: nothing is thrown
saveUploadTrackerThrows == FALSE

\* addUploadedFile without its duplicate check
AlreadyTrackedNever(entry, f) == FALSE

\* a duplicate check that looks at the newest entry only
AlreadyTrackedLast(entry, f) ==
    Len(entry.uploadedFiles) > 0 /\ entry.uploadedFiles[Len(entry.uploadedFiles)] = f

\* the duplicate check of addUploadedFile
AlreadyTracked(entry, f) == Includes(entry.uploadedFiles, f)

addUploadedFile(file, s, f, t, readOk, writeOk) ==
    LET loaded == loadUploadTracker(file, readOk)
        trk == IF s \in DOMAIN loaded THEN loaded ELSE WithEntry(loaded, s, NewEntry(t))
    IN IF ~AlreadyTracked(trk[s], f)
       THEN saveUploadTracker(file,
                WithEntry(trk, s, [uploadedFiles |-> Append(trk[s].uploadedFiles, f),
                                   lastUpdate |-> t]),
                writeOk)
       ELSE file

\* a clear that empties the whole ledger
clearUploadTrackerAll(file, s, readOk, writeOk) == saveUploadTracker(file, EmptyTracker, writeOk)

clearUploadTracker(file, s, readOk, writeOk) ==
    saveUploadTracker(file, WithoutEntry(loadUploadTracker(file, readOk), s), writeOk)

\* listDocumentsInRagStore: the returned set
listDocumentsResult(file, s, readOk) ==
    Range(UploadedFilesOf(loadUploadTracker(file, readOk), s))

\* a listing that rewrites the entry on every call
HasDuplicatesAlways(uniqueFiles, uploadedFiles) == TRUE

\* if (uniqueFiles.size !== uploadedFiles.length)
HasDuplicates(uniqueFiles, uploadedFiles) == Len(uniqueFiles) # Len(uploadedFiles)

\* listDocumentsInRagStore: the file it leaves behind
listDocumentsFile(file, s, t, readOk, writeOk) ==
    LET trk == loadUploadTracker(file, readOk)
        uploadedFiles == UploadedFilesOf(trk, s)
        uniqueFiles == ArrayFromSet(uploadedFiles)
    IN IF HasDuplicates(uniqueFiles, uploadedFiles)
       THEN saveUploadTracker(file,
                WithEntry(trk, s, [uploadedFiles |-> uniqueFiles, lastUpdate |-> t]),
                writeOk)
       ELSE file

\* a deduplicate that reports the counts and leaves the file as it is
deduplicateReportOnly(file, s, t, readOk, writeOk) ==
    LET trk == loadUploadTracker(file, readOk)
    IN IF s \notin DOMAIN trk
       THEN [tracker |-> file, before |-> 0, after |-> 0, duplicatesRemoved |-> 0]
       ELSE [tracker |-> file,
             before |-> Len(trk[s].uploadedFiles),
             after |-> Len(ArrayFromSet(trk[s].uploadedFiles)),
             duplicatesRemoved |-> Len(trk[s].uploadedFiles)
                                   - Len(ArrayFromSet(trk[s].uploadedFiles))]

\* deduplicateTrackerEntries(ragStoreName): the counts it returns and the
\* file it leaves behind
deduplicateTrackerEntries(file, s, t, readOk, writeOk) ==
    LET trk == loadUploadTracker(file, readOk)
    IN IF s \notin DOMAIN trk
       THEN [tracker |-> file, before |-> 0, after |-> 0, duplicatesRemoved |-> 0]
       ELSE LET beforeCount == Len(trk[s].uploadedFiles)
                uniqueFiles == ArrayFromSet(trk[s].uploadedFiles)
                afterCount == Len(uniqueFiles)
            IN [tracker |-> saveUploadTracker(file,
                                WithEntry(trk, s, [uploadedFiles |-> uniqueFiles,
                                                   lastUpdate |-> t]),
                                writeOk),
                before |-> beforeCount,
                after |-> afterCount,
                duplicatesRemoved |-> beforeCount - afterCount]

getUploadedFilesList(file, s, readOk) == UploadedFilesOf(loadUploadTracker(file, readOk), s)

\* duplicate-free ledgers an initial state may hold
LedgerEntries == {[uploadedFiles |-> u, lastUpdate |-> 0] : u \in DupFreeSeqs(Files, MaxLedgerLen)}

Ledgers == UNION {[D -> LedgerEntries] : D \in SUBSET StoreIds}

\* ------------------------------------------------------------------------
\* Remote store directory: listRagStores, getRagStoreByDisplayName,
\* createRagStore, deleteRagStore, getOrCreateRagStore, cleanupDuplicateStores
\* ------------------------------------------------------------------------
\* const RAG_STORE_NAME = 'national-security-documents-store'
RAG_STORE_NAME == "national-security-documents-store"

\* the display name of a store some other application made
OtherDisplayName == "other-store"

\* the names the remote gives to stores, in the order it creates them
RemoteNames == <<"s1", "s2", "s3", "s4", "s5", "s6", "s7", "s8">>

\* document counts a store of an initial state holds
DocCounts == {0, 3, 5, 12}

DecimalDigits == <<"0", "1", "2", "3", "4", "5", "6", "7", "8", "9">>

DigitValue(c) == CHOOSE d \in 0..9 : DecimalDigits[d + 1] = c

\* the int64 field activeDocumentsCount as the API renders it: a decimal
\* string, most significant digit first
RECURSIVE toDecimal(_)
toDecimal(n) ==
    IF n < 10 THEN <<DecimalDigits[n + 1]>>
    ELSE Append(toDecimal(n \div 10), DecimalDigits[(n % 10) + 1])

\* parseInt on a string of decimal digits
RECURSIVE parseInt(_)
parseInt(str) ==
    IF Len(str) = 1 THEN DigitValue(str[1])
    ELSE 10 * parseInt(SubSeq(str, 1, Len(str) - 1)) + DigitValue(str[Len(str)])

\* x || '0': a missing or empty count is read as '0'
OrZero(str) == IF str = <<>> THEN <<"0">> ELSE str

\* a store as the list call shows it; a count of zero is left out of the answer
StoreView(st) ==
    [name |-> st.name,
     displayName |-> st.displayName,
     activeDocumentsCount |-> IF st.documents = 0 THEN <<>> ELSE toDecimal(st.documents)]

\* listRagStores: the listing, or [] when the list call threw
listRagStores(remote, listOk) ==
    IF listOk THEN [k \in 1..Len(remote) |-> StoreView(remote[k])] ELSE <<>>

\* a filter that compares the resource name with the display name
MatchingStoresByName(listing, displayName) ==
    LET matches(st) == st.name = displayName
    IN SelectSeq(listing, matches)

\* stores.filter(s => s.displayName === displayName)
MatchingStores(listing, displayName) ==
    LET matches(st) == st.displayName = displayName
    IN SelectSeq(listing, matches)

\* string order on two decimal strings, as a comparison without parseInt gives it
RECURSIVE StringGreater(_, _)
StringGreater(a, b) ==
    IF a = <<>> THEN FALSE
    ELSE IF b = <<>> THEN TRUE
    ELSE IF a[1] # b[1] THEN DigitValue(a[1]) > DigitValue(b[1])
    ELSE StringGreater(Tail(a), Tail(b))

\* a reducer that compares the counts as strings
MoreDocumentsAsStrings(best, current) ==
    IF StringGreater(OrZero(current.activeDocumentsCount), OrZero(best.activeDocumentsCount))
    THEN current ELSE best

\* a reducer that lets a later store win a tie
MoreDocumentsOrEqual(best, current) ==
    LET bestCount == parseInt(OrZero(best.activeDocumentsCount))
        currentCount == parseInt(OrZero(current.activeDocumentsCount))
    IN IF currentCount >= bestCount THEN current ELSE best

\* the reducer (best, current) => currentCount > bestCount ? current : best
MoreDocuments(best, current) ==
    LET bestCount == parseInt(OrZero(best.activeDocumentsCount))
        currentCount == parseInt(OrZero(current.activeDocumentsCount))
    IN IF currentCount > bestCount THEN current ELSE best

\* Array.prototype.reduce without an initial value, over a non-empty array
RECURSIVE ReduceMoreDocuments(_)
ReduceMoreDocuments(arr) ==
    IF Len(arr) = 1 THEN arr[1]
    ELSE MoreDocuments(ReduceMoreDocuments(SubSeq(arr, 1, Len(arr) - 1)), arr[Len(arr)])

NamesOf(arr) == [k \in 1..Len(arr) |-> arr[k].name]

\* getRagStoreByDisplayName: the name of the chosen store, or "null"
getRagStoreByDisplayName(remote, displayName, listOk) ==
    LET matchingStores == MatchingStores(listRagStores(remote, listOk), displayName)
    IN IF Len(matchingStores) = 0 THEN "null"
       ELSE ReduceMoreDocuments(matchingStores).name

\* createRagStore: the remote makes an empty store and names it
createRagStore(remote, next, displayName) ==
    [stores |-> Append(remote, [name |-> RemoteNames[next],
                                displayName |-> displayName,
                                documents |-> 0]),
     nextStore |-> next + 1,
     name |-> RemoteNames[next]]

\* the remote side of deleteRagStore: the store is gone (force: true)
WithoutStore(remote, name) ==
    LET others(st) == st.name # name
    IN SelectSeq(remote, others)

\* deleteRagStore(name): the remote delete, then clearUploadTracker; when the
\* remote delete throws nothing has changed
deleteRagStore(remote, file, name, deleteOk) ==
    IF deleteOk /\ Includes(NamesOf(remote), name)
    THEN [stores |-> WithoutStore(remote, name),
          tracker |-> clearUploadTracker(file, name, TRUE, TRUE),
          threw |-> FALSE]
    ELSE [stores |-> remote, tracker |-> file, threw |-> TRUE]

\* for (const store of storesToDelete) try { await deleteRagStore(store.name);
\* deletedStores.push(store.name) } catch { }, from entry k on; the delete of
\* a store in failing throws
RECURSIVE DeleteEach(_, _, _, _, _, _)
DeleteEach(remote, file, storesToDelete, k, failing, deletedStores) ==
    IF k > Len(storesToDelete)
    THEN [stores |-> remote, tracker |-> file, deletedStores |-> deletedStores]
    ELSE LET name == storesToDelete[k].name
             del == deleteRagStore(remote, file, name, name \notin failing)
         IN DeleteEach(del.stores, del.tracker, storesToDelete, k + 1, failing,
                       IF del.threw THEN deletedStores ELSE Append(deletedStores, name))

\* a cleanup that deletes every match
StoresToDeleteAll(matchingStores, storeToKeep) == matchingStores

\* matchingStores.filter(s => s.name !== storeToKeep.name)
StoresToDelete(matchingStores, storeToKeep) ==
    LET other(st) == st.name # storeToKeep.name
    IN SelectSeq(matchingStores, other)

\* getOrCreateRagStore(displayName); deletedStores lists the stores whose
\* deleteRagStore call returned
getOrCreateRagStore(remote, file, next, displayName, listOk, createOk, failing) ==
    LET matchingStores == MatchingStores(listRagStores(remote, listOk), displayName)
    IN IF Len(matchingStores) = 0
       THEN IF createOk
            THEN LET made == createRagStore(remote, next, displayName)
                 IN [stores |-> made.stores, tracker |-> file, nextStore |-> made.nextStore,
                     threw |-> FALSE, ragStoreName |-> made.name, isNew |-> TRUE,
                     deletedStores |-> <<>>]
            ELSE [stores |-> remote, tracker |-> file, nextStore |-> next,
                  threw |-> TRUE, ragStoreName |-> "null", isNew |-> FALSE,
                  deletedStores |-> <<>>]
       ELSE IF Len(matchingStores) = 1
       THEN [stores |-> remote, tracker |-> file, nextStore |-> next, threw |-> FALSE,
             ragStoreName |-> matchingStores[1].name, isNew |-> FALSE,
             deletedStores |-> <<>>]
       ELSE LET storeToKeep == ReduceMoreDocuments(matchingStores)
                storesToDelete == StoresToDelete(matchingStores, storeToKeep)
                cleaned == DeleteEach(remote, file, storesToDelete, 1, failing, <<>>)
            IN [stores |-> cleaned.stores, tracker |-> cleaned.tracker, nextStore |-> next,
                threw |-> FALSE, ragStoreName |-> storeToKeep.name, isNew |-> FALSE,
                deletedStores |-> cleaned.deletedStores]

\* cleanupDuplicateStores(displayName)
cleanupDuplicateStores(remote, file, displayName, listOk, failing) ==
    LET matchingStores == MatchingStores(listRagStores(remote, listOk), displayName)
    IN IF Len(matchingStores) <= 1
       THEN [stores |-> remote, tracker |-> file,
             found |-> Len(matchingStores), deleted |-> 0,
             kept |-> IF Len(matchingStores) = 1 THEN matchingStores[1].name ELSE "null",
             deletedStores |-> <<>>]
       ELSE LET storeToKeep == ReduceMoreDocuments(matchingStores)
                storesToDelete == StoresToDelete(matchingStores, storeToKeep)
                cleaned == DeleteEach(remote, file, storesToDelete, 1, failing, <<>>)
            IN [stores |-> cleaned.stores, tracker |-> cleaned.tracker,
                found |-> Len(matchingStores), deleted |-> Len(cleaned.deletedStores),
                kept |-> storeToKeep.name, deletedStores |-> cleaned.deletedStores]

\* the outcomes the remote calls can have in this behaviour
ListOutcomes == IF "list" \in faults THEN BOOLEAN ELSE {TRUE}

CreateOutcomes == IF "create" \in faults THEN BOOLEAN ELSE {TRUE}

DeleteOutcomes == IF "delete" \in faults THEN BOOLEAN ELSE {TRUE}

\* the outcomes fs.writeFileSync of the ledger file can have in this behaviour
WriteOutcomes == IF "write" \in faults THEN BOOLEAN ELSE {TRUE}

\* the sets of stores whose delete throws, among the stores a cleanup deletes
FailingDeletes(remote, displayName) ==
    LET matchingStores == MatchingStores(listRagStores(remote, TRUE), displayName)
    IN IF "delete" \in faults /\ Len(matchingStores) > 1
       THEN SUBSET Range(NamesOf(StoresToDelete(matchingStores,
                                                ReduceMoreDocuments(matchingStores))))
       ELSE {{}}

\* ------------------------------------------------------------------------
\* States outside a run and outside an upload call
\* ------------------------------------------------------------------------
NoError == [kind |-> "none"]

IdleRun ==
    /\ pc = "idle"
    /\ ragStoreName = "s1"
    /\ resumeMode = FALSE
    /\ filesToUpload = <<>>
    /\ skipped = <<>>
    /\ successful = <<>>
    /\ failed = <<>>
    /\ uploadedInSession = {}
    /\ i = 0

NoCall ==
    /\ fileName = "none"
    /\ attempt = 0
    /\ pollAttempts = 0
    /\ op = "none"
    /\ err = NoError
    /\ slept = <<>>
    /\ submits = 0
    /\ polls = 0
    /\ pollDelays = 0
    /\ postDelays = <<>>
    /\ everySubmitFailed = TRUE

\* the run's frame is gone
EndRun ==
    /\ pc' = "idle"
    /\ resumeMode' = FALSE
    /\ filesToUpload' = <<>>
    /\ skipped' = <<>>
    /\ successful' = <<>>
    /\ failed' = <<>>
    /\ uploadedInSession' = {}
    /\ i' = 0
    /\ UNCHANGED ragStoreName

\* the frame of the uploadFileToRagStore call is gone
EndCall ==
    /\ fileName' = "none"
    /\ attempt' = 0
    /\ pollAttempts' = 0
    /\ op' = "none"
    /\ err' = NoError
    /\ slept' = <<>>
    /\ submits' = 0
    /\ polls' = 0
    /\ pollDelays' = 0
    /\ postDelays' = <<>>
    /\ everySubmitFailed' = TRUE

NoHistory ==
    /\ outcome = [f \in Files |-> "none"]
    /\ everSuccessful = {}
    /\ everFailed = {}
    /\ prevClean = FALSE
    /\ trackerAtStart = EmptyTracker
    /\ doneInRun = {}
    /\ prevDone = {}
    /\ crashed = FALSE
    /\ repeatedAdd = FALSE
    /\ attempted = <<>>
    /\ progress = <<>>
    /\ progressAt = <<>>

NothingIngested == ingested = [f \in Files |-> 0]

NoDirectoryCall == [fn |-> "none"]

\* an account without stores, remote calls that answer
NoDirectory ==
    /\ stores = <<>>
    /\ nextStore = 1
    /\ faults = {}
    /\ lastCall = NoDirectoryCall
    /\ prevCall = NoDirectoryCall

NoEvent == [type |-> "none"]

NoResolution ==
    [before |-> <<>>, ledger |-> EmptyTracker, canonical |-> "null", created |-> {},
     documents |-> 0, listOk |-> TRUE]

NoRequest ==
    /\ forceReload = FALSE
    /\ completion = NoEvent
    /\ resolution = NoResolution

Requests == 1..MaxRequests

NoLock ==
    /\ ragStoreCreationLock = FALSE
    /\ waitingRequests = <<>>
    /\ reqPc = [r \in Requests |-> "none"]
    /\ arrivals = <<>>
    /\ grants = <<>>
    /\ releases = [r \in Requests |-> 0]
    /\ uploads = [r \in Requests |-> <<>>]

\* ------------------------------------------------------------------------
\* Ledger operations called one at a time
\* ------------------------------------------------------------------------
InitLedger ==
    /\ now = 0
    /\ tracker \in Ledgers
    /\ listed = {}
    /\ directory = <<>>
    /\ NothingIngested
    /\ isNew = FALSE
    /\ IdleRun
    /\ NoCall
    /\ NoHistory
    /\ NoDirectory
    /\ NoRequest
    /\ NoLock

AddUploadedFile(s, f) ==
    /\ tracker' = addUploadedFile(tracker, s, f, now, TRUE, TRUE)
    /\ repeatedAdd' = (repeatedAdd \/ Includes(UploadedFilesOf(tracker, s), f))
    /\ UNCHANGED <<now, listed, remoteVars, frameVars, isNew, runVars, callVars>>
    /\ UNCHANGED <<outcome, everSuccessful, everFailed, prevClean, trackerAtStart,
                   doneInRun, prevDone, crashed, attempted, progress, progressAt>>

ListDocumentsInRagStore(s) ==
    /\ listed' = listDocumentsResult(tracker, s, TRUE)
    /\ tracker' = listDocumentsFile(tracker, s, now, TRUE, TRUE)
    /\ UNCHANGED <<now, remoteVars, frameVars, isNew, runVars, callVars, histVars>>

Tick ==
    /\ now < MaxNow
    /\ now' = now + 1
    /\ UNCHANGED <<tracker, listed, remoteVars, frameVars, isNew, runVars, callVars, histVars>>

NextLedger ==
    \/ \E s \in StoreIds, f \in Files : AddUploadedFile(s, f)
    \/ \E s \in StoreIds : ListDocumentsInRagStore(s)
    \/ Tick

SpecLedger == InitLedger /\ [][NextLedger]_vars

\* C1: starting from an empty or duplicate-free ledger, after any sequence of
\* addUploadedFile calls (any repetition of a filename, any mix of store ids)
\* the persisted uploadedFiles sequence of every store holds each filename at
\* most once, and the set listDocumentsInRagStore returns has as many
\* members as that sequence has entries.
LedgerSetInvariant ==
    /\ \A s \in DOMAIN tracker : IsDupFree(tracker[s].uploadedFiles)
    /\ \A s \in StoreIds :
          Cardinality(listDocumentsResult(tracker, s, TRUE)) = Len(UploadedFilesOf(tracker, s))

\* a filename was recorded again after it was in the ledger, both stores in use
LedgerRepeatedAddReached ==
    /\ repeatedAdd
    /\ DOMAIN tracker = StoreIds
    /\ \A s \in StoreIds : Len(tracker[s].uploadedFiles) >= 2

\* ------------------------------------------------------------------------
\* Ledger operations on a ledger file that may hold repeated filenames
\* (written by an older version of the server or edited by hand)
\* ------------------------------------------------------------------------
\* entries of store s1: any sequence of filenames, repetitions included
LegacyEntries ==
    {[uploadedFiles |-> u, lastUpdate |-> 0] : u \in SeqsUpTo(Files, MaxLedgerLen + 1)}

\* entries of store s2: a filename recorded once or twice
OtherEntries ==
    {[uploadedFiles |-> u, lastUpdate |-> 0] : u \in {<<"B.pdf">>, <<"B.pdf", "B.pdf">>}}

LegacyLedgers ==
    UNION {{[x \in D |-> IF x = "s1" THEN a ELSE b] : a \in LegacyEntries, b \in OtherEntries} :
             D \in SUBSET StoreIds}

InitTracker ==
    /\ now = 0
    /\ tracker \in LegacyLedgers
    /\ listed = {}
    /\ directory = <<>>
    /\ NothingIngested
    /\ isNew = FALSE
    /\ IdleRun
    /\ NoCall
    /\ NoHistory
    /\ NoDirectory
    /\ NoRequest
    /\ NoLock

\* what is kept of the call before the latest one
CallSummary(call) ==
    IF call.fn = "none" THEN call
    ELSE [fn |-> call.fn, store |-> call.store, file |-> call.file]

TrackerFrame == <<now, remoteVars, directory, nextStore, faults, requestVars, lockVars, isNew,
                  runVars, callVars, histVars>>

\* addUploadedFile(s, f)
AddUploadedFileCall(s, f) ==
    /\ tracker' = addUploadedFile(tracker, s, f, now, TRUE, TRUE)
    /\ lastCall' = [fn |-> "addUploadedFile", store |-> s, file |-> f, at |-> now,
                    ledger |-> tracker, result |-> "void"]
    /\ prevCall' = CallSummary(lastCall)
    /\ UNCHANGED listed
    /\ UNCHANGED TrackerFrame

\* await listDocumentsInRagStore(s)
ListDocumentsInRagStoreCall(s) ==
    /\ listed' = listDocumentsResult(tracker, s, TRUE)
    /\ tracker' = listDocumentsFile(tracker, s, now, TRUE, TRUE)
    /\ lastCall' = [fn |-> "listDocumentsInRagStore", store |-> s, file |-> "none", at |-> now,
                    ledger |-> tracker, result |-> listDocumentsResult(tracker, s, TRUE)]
    /\ prevCall' = CallSummary(lastCall)
    /\ UNCHANGED TrackerFrame

\* deduplicateTrackerEntries(s) as POST /api/debug/fix-tracker-duplicates calls it
DeduplicateTrackerEntries(s) ==
    /\ LET r == deduplicateTrackerEntries(tracker, s, now, TRUE, TRUE)
       IN /\ tracker' = r.tracker
          /\ lastCall' = [fn |-> "deduplicateTrackerEntries", store |-> s, file |-> "none",
                          at |-> now, ledger |-> tracker,
                          result |-> [before |-> r.before, after |-> r.after,
                                      duplicatesRemoved |-> r.duplicatesRemoved]]
    /\ prevCall' = CallSummary(lastCall)
    /\ UNCHANGED listed
    /\ UNCHANGED TrackerFrame

\* the calls name store s1; the entry of s2 is there to be left alone
NextTracker ==
    \/ \E f \in Files : AddUploadedFileCall("s1", f)
    \/ ListDocumentsInRagStoreCall("s1")
    \/ DeduplicateTrackerEntries("s1")
    \/ Tick

SpecTracker == InitTracker /\ [][NextTracker]_vars

\* the entries of stores other than s are as they were before the latest call
OtherEntriesKept(s) ==
    \A x \in DOMAIN lastCall.ledger \ {s} : x \in DOMAIN tracker /\ tracker[x] = lastCall.ledger[x]

\* the latest call repeated the call before it
CallRepeated ==
    /\ prevCall.fn = lastCall.fn
    /\ prevCall.store = lastCall.store
    /\ prevCall.file = lastCall.file

\* C26: addUploadedFile(storeId, f) on a ledger that holds f for storeId
\* changes nothing, so a second call leaves what the first call left; when
\* f is absent it appends f at the end, sets lastUpdate, and leaves the
\* entries of all other stores as they were.
RecordSuccessIdempotent ==
    (lastCall.fn = "addUploadedFile") =>
        LET s == lastCall.store
            f == lastCall.file
            old == lastCall.ledger
        IN /\ IF Includes(UploadedFilesOf(old, s), f)
              THEN tracker = old
              ELSE /\ DOMAIN tracker = DOMAIN old \cup {s}
                   /\ tracker[s].uploadedFiles = Append(UploadedFilesOf(old, s), f)
                   /\ tracker[s].lastUpdate = lastCall.at
                   /\ OtherEntriesKept(s)
           /\ CallRepeated => tracker = old
           /\ \A t \in now..MaxNow : addUploadedFile(tracker, s, f, t, TRUE, TRUE) = tracker

\* the same file was recorded twice in a row for a store whose entry holds
\* another file after it; the clock moved between the calls
RecordedTwiceReached ==
    /\ lastCall.fn = "addUploadedFile"
    /\ CallRepeated
    /\ lastCall.store = "s1"
    /\ lastCall.file = "A.txt"
    /\ tracker["s1"].uploadedFiles = <<"A.txt", "B.pdf">>
    /\ tracker["s1"].lastUpdate < now

\* C27: when the persisted sequence of storeId holds duplicates,
\* listDocumentsInRagStore returns the set of its filenames and leaves a
\* persisted sequence with the same filenames and no duplicates; without
\* duplicates or without an entry it writes nothing; entries of other stores
\* are never changed.
ListUploadedSelfHeals ==
    (lastCall.fn = "listDocumentsInRagStore") =>
        LET s == lastCall.store
            old == lastCall.ledger
            oldFiles == UploadedFilesOf(old, s)
        IN /\ lastCall.result = Range(oldFiles)
           /\ listed = lastCall.result
           /\ IF IsDupFree(oldFiles)
              THEN tracker = old
              ELSE /\ DOMAIN tracker = DOMAIN old
                   /\ IsDupFree(tracker[s].uploadedFiles)
                   /\ Range(tracker[s].uploadedFiles) = Range(oldFiles)
           /\ OtherEntriesKept(s)

\* the entry [A, B, A] was listed at time 1: the set {A, B} was returned and
\* [A, B] persisted next to the untouched entry of the other store
ListHealedReached ==
    /\ lastCall.fn = "listDocumentsInRagStore"
    /\ lastCall.at = 1
    /\ UploadedFilesOf(lastCall.ledger, "s1") = <<"A.txt", "B.pdf", "A.txt">>
    /\ listed = {"A.txt", "B.pdf"}
    /\ tracker["s1"] = [uploadedFiles |-> <<"A.txt", "B.pdf">>, lastUpdate |-> 1]
    /\ UploadedFilesOf(tracker, "s2") = <<"B.pdf", "B.pdf">>

\* C28: deduplicateTrackerEntries(storeId) returns before = number of
\* stored entries, after = number of distinct filenames, removed = before -
\* after, and persists a sequence with the same filenames and no duplicates;
\* a second call returns removed = 0 with before = after; without a ledger
\* entry it returns zeros and creates no entry.
DeduplicateReports ==
    (lastCall.fn = "deduplicateTrackerEntries") =>
        LET s == lastCall.store
            old == lastCall.ledger
            r == lastCall.result
        IN /\ IF s \in DOMAIN old
              THEN /\ r.before = Len(old[s].uploadedFiles)
                   /\ r.after = Cardinality(Range(old[s].uploadedFiles))
                   /\ r.duplicatesRemoved = r.before - r.after
                   /\ DOMAIN tracker = DOMAIN old
                   /\ IsDupFree(tracker[s].uploadedFiles)
                   /\ Range(tracker[s].uploadedFiles) = Range(old[s].uploadedFiles)
                   /\ Len(tracker[s].uploadedFiles) = r.after
              ELSE /\ r = [before |-> 0, after |-> 0, duplicatesRemoved |-> 0]
                   /\ tracker = old
           /\ OtherEntriesKept(s)
           /\ CallRepeated => (r.duplicatesRemoved = 0 /\ r.before = r.after)
           /\ \A t \in now..MaxNow :
                 LET again == deduplicateTrackerEntries(tracker, s, t, TRUE, TRUE)
                 IN again.duplicatesRemoved = 0 /\ again.before = again.after

\* the entry [A, A, B] was deduplicated twice in a row: the second call
\* found the two entries the first call had left
DeduplicatedTwiceReached ==
    /\ lastCall.fn = "deduplicateTrackerEntries"
    /\ CallRepeated
    /\ UploadedFilesOf(lastCall.ledger, "s1") = <<"A.txt", "B.pdf">>
    /\ lastCall.result = [before |-> 2, after |-> 2, duplicatesRemoved |-> 0]
    /\ UploadedFilesOf(tracker, "s1") = <<"A.txt", "B.pdf">>
    /\ UploadedFilesOf(tracker, "s2") = <<"B.pdf", "B.pdf">>

\* ------------------------------------------------------------------------
\* Uploader: uploadFileToRagStore
\* ------------------------------------------------------------------------
histRest == <<outcome, everSuccessful, everFailed, prevClean, trackerAtStart,
              prevDone, crashed, repeatedAdd, attempted, progress, progressAt>>

\* a backoff that grows linearly instead of doubling
retryDelayLinear(a) == baseDelay * (a + 1)

\* const retryDelay = baseDelay * Math.pow(2, attempt)
retryDelay(a) == baseDelay * Pow2(a)

\* a catch block that never takes an attempt for the last one
isLastAttemptNever(a) == FALSE

\* a last-attempt test that is off by one
isLastAttemptLate(a) == a = maxRetries

\* const isLastAttempt = attempt === maxRetries - 1
isLastAttempt(a) == a = maxRetries - 1

\* a poll bound that is off by one
PollLimitReachedLate(p) == p > maxPollAttempts

\* if (pollAttempts >= maxPollAttempts) throw
PollLimitReached(p) == p >= maxPollAttempts

SubmitError == [kind |-> "submit"]

PollError == [kind |-> "poll"]

\* new Error(`Upload timeout for ${fileName} after ${maxPollAttempts * 3} seconds`)
TimeoutError == [kind |-> "timeout", seconds |-> maxPollAttempts * 3]

\* new Error(`Failed to upload ${fileName} after ${maxRetries} attempts: ...`)
UploadFailedError(e) == [kind |-> "uploadFailed", attempts |-> maxRetries, cause |-> e]

\* the remote store ingests one more document named f: the document count of
\* the target store grows with it
Ingest(f) ==
    /\ ingested' = [ingested EXCEPT ![f] = Min(@ + 1, MaxDocs)]
    /\ stores' = [k \in 1..Len(stores) |->
                     IF stores[k].name = ragStoreName /\ ingested[f] < MaxDocs
                     THEN [stores[k] EXCEPT !.documents = @ + 1]
                     ELSE stores[k]]

\* the operation the client stops watching is still running in the remote
\* store: it completes later or it never does
Abandon(f) == \E completes \in BOOLEAN : IF completes THEN Ingest(f) ELSE UNCHANGED remoteVars

\* the catch block of the retry loop, with the loop's increment and test
Caught(e) ==
    /\ op' = "none"
    /\ IF isLastAttempt(attempt)
       THEN /\ err' = UploadFailedError(e)
            /\ pc' = "threw"
            /\ UNCHANGED <<attempt, slept>>
       ELSE /\ err' = e
            /\ slept' = Append(slept, retryDelay(attempt))
            /\ attempt' = attempt + 1
            /\ pc' = IF attempt + 1 < maxRetries THEN "submit" ELSE "returned"

\* a timeout that ends the call at once, whatever the attempt
TimeoutThrownFatal ==
    /\ op' = "none"
    /\ err' = UploadFailedError(TimeoutError)
    /\ pc' = "threw"
    /\ UNCHANGED <<attempt, slept>>

\* throw new Error(`Upload timeout ...`) inside the try block: the catch
\* block of the retry loop receives it
TimeoutThrown == Caught(TimeoutError)

\* the delete of the target store has completed
StoreDeleted ==
    /\ lastCall.fn = "deleteRagStore"
    /\ lastCall.name = ragStoreName
    /\ ~lastCall.threw

\* what await uploadToFileSearchStore(...) can do: throw, return an operation
\* that is done, return one that is pending; for a store that was deleted
\* the remote answers with an error
SubmitOutcomes == IF StoreDeleted THEN {"throw"} ELSE {"throw", "done", "pending"}

\* one pass through the top of the try block: read the file, submit it
Submit ==
    /\ pc = "submit"
    /\ submits' = submits + 1
    /\ pollAttempts' = 0
    /\ polls' = 0
    /\ pollDelays' = 0
    /\ \E r \in SubmitOutcomes :
         IF r = "throw"
         THEN /\ Caught(SubmitError)
              /\ UNCHANGED <<remoteVars, everySubmitFailed, doneInRun>>
         ELSE /\ op' = r
              /\ pc' = "poll"
              /\ everySubmitFailed' = FALSE
              /\ err' = NoError
              /\ UNCHANGED <<attempt, slept>>
              /\ IF r = "done"
                 THEN Ingest(fileName) /\ doneInRun' = doneInRun \cup {fileName}
                 ELSE UNCHANGED <<remoteVars, doneInRun>>
    /\ UNCHANGED <<ledgerVars, frameVars, isNew, fileName, postDelays, histRest>>
    /\ UNCHANGED <<ragStoreName, resumeMode, filesToUpload, skipped, successful,
                   failed, uploadedInSession, i>>

\* one iteration of while (!op.done)
PollStep ==
    /\ pc = "poll"
    /\ op = "pending"
    /\ IF PollLimitReached(pollAttempts)
       THEN /\ TimeoutThrown
            /\ Abandon(fileName)
            /\ UNCHANGED <<pollAttempts, polls, pollDelays, doneInRun>>
       ELSE /\ pollDelays' = pollDelays + pollInterval
            /\ polls' = polls + 1
            /\ \E r \in {"throw", "done", "pending"} :
                 IF r = "throw"
                 THEN /\ Caught(PollError)
                      /\ Abandon(fileName)
                      /\ UNCHANGED <<pollAttempts, doneInRun>>
                 ELSE /\ op' = r
                      /\ pollAttempts' = pollAttempts + 1
                      /\ UNCHANGED <<pc, attempt, err, slept>>
                      /\ IF r = "done"
                         THEN Ingest(fileName) /\ doneInRun' = doneInRun \cup {fileName}
                         ELSE UNCHANGED <<remoteVars, doneInRun>>
    /\ UNCHANGED <<ledgerVars, frameVars, isNew, fileName, submits, postDelays,
                   everySubmitFailed, histRest>>
    /\ UNCHANGED <<ragStoreName, resumeMode, filesToUpload, skipped, successful,
                   failed, uploadedInSession, i>>

\* the loop ended with op.done: rate-limit delay, then return
PostDelay ==
    /\ pc = "poll"
    /\ op = "done"
    /\ postDelays' = Append(postDelays, postSuccessDelay)
    /\ pc' = "returned"
    /\ UNCHANGED <<ledgerVars, remoteVars, frameVars, isNew, histVars>>
    /\ UNCHANGED <<ragStoreName, resumeMode, filesToUpload, skipped, successful,
                   failed, uploadedInSession, i>>
    /\ UNCHANGED <<fileName, attempt, pollAttempts, op, err, slept, submits, polls,
                   pollDelays, everySubmitFailed>>

\* a single call uploadFileToRagStore(ragStoreName, filePath)
InitUpload ==
    /\ now = 0
    /\ tracker = EmptyTracker
    /\ listed = {}
    /\ directory = <<>>
    /\ NothingIngested
    /\ isNew = FALSE
    /\ pc = "submit"
    /\ ragStoreName = "s1"
    /\ resumeMode = FALSE
    /\ filesToUpload = <<>>
    /\ skipped = <<>>
    /\ successful = <<>>
    /\ failed = <<>>
    /\ uploadedInSession = {}
    /\ i = 0
    /\ fileName \in Files
    /\ attempt = 0
    /\ pollAttempts = 0
    /\ op = "none"
    /\ err = NoError
    /\ slept = <<>>
    /\ submits = 0
    /\ polls = 0
    /\ pollDelays = 0
    /\ postDelays = <<>>
    /\ everySubmitFailed = TRUE
    /\ NoHistory
    /\ NoDirectory
    /\ NoRequest
    /\ NoLock

NextUpload == Submit \/ PollStep \/ PostDelay

SpecUpload == InitUpload /\ [][NextUpload]_vars

\* every remote call and every delay of the call returns
SpecUploadFair == InitUpload /\ [][NextUpload]_vars /\ WF_vars(NextUpload)

\* the error the latest catch block received
LastCaught == IF err.kind = "uploadFailed" THEN err.cause ELSE err

\* C4: when every submit call fails the upload makes exactly maxRetries
\* submit attempts, the delays slept between consecutive attempts double
\* from one to the next, the call ends with the error reporting maxRetries
\* attempts, and no call ever makes more than maxRetries submits.
RetryBound ==
    /\ submits <= maxRetries
    /\ (everySubmitFailed /\ pc \in {"threw", "returned"}) =>
          /\ pc = "threw"
          /\ submits = maxRetries
          /\ err.kind = "uploadFailed"
          /\ err.attempts = maxRetries
          /\ Len(slept) = maxRetries - 1
          /\ \A k \in 1..(Len(slept) - 1) : slept[k + 1] = 2 * slept[k] /\ slept[k] < slept[k + 1]

\* an upload whose submits all failed has ended
EverySubmitFailedEnded == everySubmitFailed /\ pc = "threw" /\ submits = maxRetries

\* C5 as stated: an upload that fails on every attempt sleeps 2s, 4s, 8s,
\* 16s, 32s, the delay after failed attempt a being baseDelay * 2^a.
BackoffScheduleAsClaimed ==
    (everySubmitFailed /\ pc = "threw") =>
        slept = <<2000, 4000, 8000, 16000, 32000>>

PollCounts ==
    /\ polls <= maxPollAttempts
    /\ pollAttempts <= polls
    /\ pollDelays = polls * pollInterval
    /\ (op = "done") => (pc \in {"poll", "returned"} /\ polls = pollAttempts)
    /\ (pc = "returned") => (op = "done" /\ postDelays = <<postSuccessDelay>>)
    /\ (LastCaught.kind = "timeout") =>
          /\ LastCaught.seconds = maxPollAttempts * 3
          /\ LastCaught.seconds * 1000 = pollDelays
          /\ polls = maxPollAttempts
          /\ pollAttempts = maxPollAttempts

NoPollAfterDone == [][op = "done" => (polls' = polls /\ pollDelays' = pollDelays /\ op' = "done")]_vars

\* C6: within one attempt at most maxPollAttempts polls are issued, each
\* after one 3-second delay; once the operation is done (at submit or at a
\* poll) no further poll is made and the attempt succeeds; a timeout is
\* raised only after maxPollAttempts polls that all reported not done, and
\* it carries maxPollAttempts * 3 seconds.
PollBound == []PollCounts /\ NoPollAfterDone

\* an attempt timed out after the last allowed poll
PollTimeoutReached == LastCaught.kind = "timeout" /\ polls = maxPollAttempts

\* the poll bound is exceeded at the head of the while loop
AtTimeout == pc = "poll" /\ op = "pending" /\ pollAttempts >= maxPollAttempts

\* C22: a timeout in attempt a < maxRetries - 1 counts as one failed
\* attempt, the backoff delay of attempt a is slept and the next attempt
\* starts with a fresh submit of the document; a timeout in the last
\* attempt ends the upload with the error of exhausted retries.
TimeoutRetried ==
    /\ [][AtTimeout =>
             IF attempt < maxRetries - 1
             THEN /\ attempt' = attempt + 1
                  /\ slept' = Append(slept, baseDelay * Pow2(attempt))
                  /\ err' = TimeoutError
                  /\ pc' = "submit"
                  /\ submits' = submits
             ELSE /\ pc' = "threw"
                  /\ err' = [kind |-> "uploadFailed", attempts |-> maxRetries,
                             cause |-> TimeoutError]
                  /\ slept' = slept
                  /\ submits' = submits]_vars
    /\ [][pc = "submit" => (submits' = submits + 1 /\ polls' = 0 /\ pollAttempts' = 0)]_vars
    /\ [](err.kind = "timeout" => (pc = "submit" /\ Len(slept) = attempt /\ submits = attempt))

\* the second attempt timed out and its backoff of 4 s was slept; the third
\* attempt is about to submit
TimeoutRetriedReached ==
    /\ pc = "submit"
    /\ err.kind = "timeout"
    /\ attempt = 2
    /\ submits = 2
    /\ slept = <<2000, 4000>>

\* the polls of finished attempts and of the present one never exceed the
\* product of the two bounds
CallCounts ==
    /\ submits <= maxRetries
    /\ polls <= maxPollAttempts
    /\ attempt <= maxRetries - 1
    /\ attempt * maxPollAttempts + polls <= maxRetries * maxPollAttempts
    /\ (pc = "returned") => op = "done"
    /\ (pc = "threw") => (err.kind = "uploadFailed" /\ err.attempts = maxRetries)

\* polls are counted per attempt: the count restarts only with a new submit
PollsPerSubmit ==
    [][polls' # polls =>
         \/ polls' = polls + 1 /\ submits' = submits
         \/ polls' = 0 /\ submits' = submits + 1]_vars

\* C23: when every remote call and delay returns, uploadFileToRagStore
\* terminates, with success or with the error of exhausted retries, after at
\* most maxRetries submits and at most maxPollAttempts polls per submit
\* (maxRetries * maxPollAttempts in all), also when the operation never
\* reports done.
UploaderTermination ==
    /\ []CallCounts
    /\ PollsPerSubmit
    /\ <>(pc \in {"returned", "threw"})

\* the call ended after maxRetries submits whose last operation never
\* reported done
NeverDoneEndedReached ==
    /\ pc = "threw"
    /\ submits = maxRetries
    /\ polls = maxPollAttempts
    /\ err.cause.kind = "timeout"

\* ------------------------------------------------------------------------
\* Directory diff and upload loop: uploadDirectoryToRagStore
\* ------------------------------------------------------------------------
SupportedExtensions == {".txt", ".pdf", ".doc", ".docx", ".md", ".html", ".json"}

\* path.extname(file) of the names of the model
extname(file) ==
    CASE file = "A.txt" -> ".txt"
      [] file = "B.pdf" -> ".pdf"
      [] file = "C.MD" -> ".MD"
      [] OTHER -> ".bin"

\* String.prototype.toLowerCase on the extensions of the model
toLowerCase(ext) == IF ext = ".MD" THEN ".md" ELSE ext

\* an extension test that forgets to lower the case
IsSupportedCaseSensitive(file) == extname(file) \in SupportedExtensions

IsSupported(file) == toLowerCase(extname(file)) \in SupportedExtensions

\* fs.readdirSync(directoryPath).filter(...)
AllFilesArray(dir) == SelectSeq(dir, IsSupported)

\* a scan that does not look for filenames already seen
RECURSIVE ScanDirectoryNoCheck(_, _, _, _)
ScanDirectoryNoCheck(arr, k, keys, dups) ==
    IF k > Len(arr) THEN [allFiles |-> keys, duplicatesInDirectory |-> dups]
    ELSE ScanDirectoryNoCheck(arr, k + 1, Append(keys, arr[k]), dups)

\* the scan that fills uniqueFilesMap and duplicatesInDirectory, from entry k on
RECURSIVE ScanDirectory(_, _, _, _)
ScanDirectory(arr, k, keys, dups) ==
    IF k > Len(arr) THEN [allFiles |-> keys, duplicatesInDirectory |-> dups]
    ELSE IF Includes(keys, arr[k])
         THEN ScanDirectory(arr, k + 1, keys, Append(dups, arr[k]))
         ELSE ScanDirectory(arr, k + 1, Append(keys, arr[k]), dups)

\* a resume filter that looks at the ledger entries of every store
ResumeFilterAnyStore(trk, s, allFiles) ==
    LET uploaded == UNION {Range(trk[x].uploadedFiles) : x \in DOMAIN trk}
        keep(f) == f \notin uploaded
        drop(f) == f \in uploaded
    IN [filesToUpload |-> SelectSeq(allFiles, keep), alreadyUploaded |-> SelectSeq(allFiles, drop)]

\* a resume filter that skips nothing
ResumeFilterKeepAll(trk, s, allFiles) == [filesToUpload |-> allFiles, alreadyUploaded |-> <<>>]

\* the resume-mode filter over allFiles
ResumeFilter(trk, s, allFiles) ==
    LET uploaded == listDocumentsResult(trk, s, TRUE)
        keep(f) == f \notin uploaded
        drop(f) == f \in uploaded
    IN [filesToUpload |-> SelectSeq(allFiles, keep), alreadyUploaded |-> SelectSeq(allFiles, drop)]

\* a diff that consults the ledger also outside resume mode
UseLedgerAlways(resume) == TRUE

\* if (resumeMode)
UseLedger(resume) == resume

\* a directory scan that goes on with an empty list
NoDocumentsFoundNever(allFilesArray) == FALSE

\* if (allFilesArray.length === 0) throw new Error(`No supported documents found ...`)
NoDocumentsFound(allFilesArray) == Len(allFilesArray) = 0

\* uploadDirectoryToRagStore up to the start of the upload loop
UploadDirectoryStart(resume) ==
    LET allFilesArray == AllFilesArray(directory)
        scan == ScanDirectory(allFilesArray, 1, <<>>, <<>>)
        diff == ResumeFilter(tracker, ragStoreName, scan.allFiles)
    IN /\ resumeMode' = resume
       /\ trackerAtStart' = tracker
       /\ doneInRun' = {}
       /\ attempted' = <<>>
       /\ progress' = <<>>
       /\ progressAt' = <<>>
       /\ outcome' = [f \in Files |-> "none"]
       /\ successful' = <<>>
       /\ failed' = <<>>
       /\ uploadedInSession' = {}
       /\ i' = 0
       /\ IF NoDocumentsFound(allFilesArray)
          THEN /\ pc' = "error"
               /\ filesToUpload' = <<>>
               /\ skipped' = <<>>
               /\ UNCHANGED <<tracker, listed>>
          ELSE /\ pc' = "loop"
               /\ IF UseLedger(resume)
                  THEN /\ listed' = listDocumentsResult(tracker, ragStoreName, TRUE)
                       /\ tracker' = listDocumentsFile(tracker, ragStoreName, now, TRUE, TRUE)
                       /\ filesToUpload' = diff.filesToUpload
                       /\ skipped' = scan.duplicatesInDirectory \o diff.alreadyUploaded
                  ELSE /\ filesToUpload' = scan.allFiles
                       /\ skipped' = scan.duplicatesInDirectory
                       /\ UNCHANGED <<tracker, listed>>
       /\ UNCHANGED <<now, remoteVars, frameVars, ragStoreName, callVars>>
       /\ UNCHANGED <<everSuccessful, everFailed, prevClean, prevDone, crashed, repeatedAdd>>

\* onProgress(i + 1, filesToUpload.length, fileName)
OnProgress(current, total, name) ==
    [current |-> current, total |-> total, fileName |-> name]

\* the head of the for loop: return after the last file, otherwise report
\* progress and hand the next file to the uploader
NextFile ==
    /\ pc = "loop"
    /\ IF i >= Len(filesToUpload)
       THEN /\ pc' = "done"
            /\ UNCHANGED <<skipped, i, callVars, attempted, progress, progressAt>>
       ELSE IF filesToUpload[i + 1] \in uploadedInSession
            THEN /\ skipped' = Append(skipped, filesToUpload[i + 1])
                 /\ i' = i + 1
                 /\ UNCHANGED <<pc, callVars, attempted, progress, progressAt>>
            ELSE /\ pc' = "submit"
                 /\ fileName' = filesToUpload[i + 1]
                 /\ progress' = Append(progress, OnProgress(i + 1, Len(filesToUpload),
                                                            filesToUpload[i + 1]))
                 /\ progressAt' = Append(progressAt,
                        [attemptEnded |-> outcome[filesToUpload[i + 1]] # "none",
                         recorded |-> filesToUpload[i + 1] \in uploadedInSession])
                 /\ attempted' = Append(attempted, filesToUpload[i + 1])
                 /\ attempt' = 0
                 /\ pollAttempts' = 0
                 /\ op' = "none"
                 /\ err' = NoError
                 /\ slept' = <<>>
                 /\ submits' = 0
                 /\ polls' = 0
                 /\ pollDelays' = 0
                 /\ postDelays' = <<>>
                 /\ everySubmitFailed' = TRUE
                 /\ UNCHANGED <<skipped, i>>
    /\ UNCHANGED <<ledgerVars, remoteVars, frameVars, isNew, ragStoreName, resumeMode,
                   filesToUpload, successful, failed, uploadedInSession>>
    /\ UNCHANGED <<outcome, everSuccessful, everFailed, prevClean, trackerAtStart,
                   doneInRun, prevDone, crashed, repeatedAdd>>

\* an upload loop that gives up at the first failed file
AfterFailureStop(k, n) == n

\* the loop index after a failed file: the loop goes on
AfterFailure(k, n) == k + 1

\* a ledger that is not written inside the loop
RecordSuccessSkipped(file, s, f, t, writeOk) == file

\* addUploadedFile(ragStoreName, fileName) as the loop calls it
RecordSuccess(file, s, f, t, writeOk) == addUploadedFile(file, s, f, t, TRUE, writeOk)

\* the error of a ledger write that failed
SaveError == [kind |-> "save"]

\* uploadFileToRagStore returned: the rest of the try block; an error thrown
\* by addUploadedFile would end in the catch block of the loop
UploadReturned ==
    /\ pc = "returned"
    /\ \E writeOk \in WriteOutcomes :
         LET saved == ~Includes(UploadedFilesOf(tracker, ragStoreName), fileName)
             threw == saved /\ ~writeOk /\ saveUploadTrackerThrows
         IN /\ tracker' = RecordSuccess(tracker, ragStoreName, fileName, now, writeOk)
            /\ IF threw
               THEN /\ failed' = Append(failed, [fileName |-> fileName, error |-> SaveError])
                    /\ UNCHANGED <<uploadedInSession, successful, everSuccessful>>
               ELSE /\ uploadedInSession' = uploadedInSession \cup {fileName}
                    /\ successful' = Append(successful, fileName)
                    /\ everSuccessful' = everSuccessful \cup {fileName}
                    /\ UNCHANGED failed
    /\ repeatedAdd' = (repeatedAdd \/ Includes(UploadedFilesOf(tracker, ragStoreName), fileName))
    /\ outcome' = [outcome EXCEPT ![fileName] = "ok"]
    /\ i' = i + 1
    /\ pc' = "loop"
    /\ EndCall
    /\ UNCHANGED <<now, listed, remoteVars, frameVars, isNew, ragStoreName, resumeMode,
                   filesToUpload, skipped>>
    /\ UNCHANGED <<everFailed, prevClean, trackerAtStart, doneInRun, prevDone, crashed,
                   attempted, progress, progressAt>>

\* uploadFileToRagStore threw: the catch block of the loop
UploadThrew ==
    /\ pc = "threw"
    /\ failed' = Append(failed, [fileName |-> fileName, error |-> err])
    /\ outcome' = [outcome EXCEPT ![fileName] = "failed"]
    /\ everFailed' = everFailed \cup {fileName}
    /\ i' = AfterFailure(i, Len(filesToUpload))
    /\ pc' = "loop"
    /\ EndCall
    /\ UNCHANGED <<ledgerVars, remoteVars, frameVars, isNew, ragStoreName, resumeMode,
                   filesToUpload, skipped, successful, uploadedInSession>>
    /\ UNCHANGED <<everSuccessful, prevClean, trackerAtStart, doneInRun, prevDone,
                   crashed, repeatedAdd, attempted, progress, progressAt>>

\* ------------------------------------------------------------------------
\* The diff applied to bounded directory listings and ledgers
\* ------------------------------------------------------------------------
InitDiff ==
    /\ now = 0
    /\ tracker \in Ledgers
    /\ listed = {}
    /\ directory \in SeqsUpTo(DirNames, MaxDirLen)
    /\ NothingIngested
    /\ isNew = FALSE
    /\ IdleRun
    /\ NoCall
    /\ NoHistory
    /\ NoDirectory
    /\ NoRequest
    /\ NoLock

\* uploadDirectoryToRagStore(ragStoreName, directoryPath, onProgress, resumeMode)
DiffStart ==
    /\ pc = "idle"
    /\ \E resume \in BOOLEAN : UploadDirectoryStart(resume)
    /\ UNCHANGED isNew

SpecDiff == InitDiff /\ [][DiffStart]_vars

\* the entries of arr at the positions in idx, in order
RECURSIVE AtPositions(_, _, _)
AtPositions(arr, idx, k) ==
    IF k > Len(arr) THEN <<>>
    ELSE IF k \in idx THEN <<arr[k]>> \o AtPositions(arr, idx, k + 1)
         ELSE AtPositions(arr, idx, k + 1)

FirstOccurrences(arr) ==
    AtPositions(arr, {k \in 1..Len(arr) : \A j \in 1..(k - 1) : arr[j] # arr[k]}, 1)

LaterOccurrences(arr) ==
    AtPositions(arr, {k \in 1..Len(arr) : \E j \in 1..(k - 1) : arr[j] = arr[k]}, 1)

\* C7: in non-resume mode the upload set holds each distinct filename of the
\* listing of supported documents exactly once, in the order of first
\* occurrence, the skip list holds one entry for every later occurrence of
\* a filename already seen, and the ledger is neither read nor written.
DiffCompleteness ==
    (pc = "loop" /\ ~resumeMode) =>
        /\ filesToUpload = FirstOccurrences(AllFilesArray(directory))
        /\ IsDupFree(filesToUpload)
        /\ skipped = LaterOccurrences(AllFilesArray(directory))
        /\ tracker = trackerAtStart
        /\ listed = {}

\* the listing [A, B, A, C] was diffed in non-resume mode over a ledger that holds A
DiffOfDuplicateListingReached ==
    /\ pc = "loop"
    /\ ~resumeMode
    /\ directory = <<"A.txt", "B.pdf", "A.txt", "C.MD">>
    /\ filesToUpload = <<"A.txt", "B.pdf", "C.MD">>
    /\ skipped = <<"A.txt">>
    /\ "A.txt" \in Range(UploadedFilesOf(tracker, ragStoreName))

\* C8: in resume mode the upload set is the deduplicated listing without the
\* filenames the ledger records for the target store, in the original
\* order, each removed filename is appended to the skip list, and the
\* ledger entries of other stores play no part.
ResumeSkip ==
    (pc = "loop" /\ resumeMode) =>
        LET recorded == Range(UploadedFilesOf(trackerAtStart, ragStoreName))
            unique == FirstOccurrences(AllFilesArray(directory))
            keep(f) == f \notin recorded
            drop(f) == f \in recorded
        IN /\ filesToUpload = SelectSeq(unique, keep)
           /\ skipped = LaterOccurrences(AllFilesArray(directory)) \o SelectSeq(unique, drop)
           /\ listed = recorded

\* the listing [A, B, C] was diffed in resume mode, B recorded for the target
\* store and A recorded for another store
ResumeSkipReached ==
    /\ pc = "loop"
    /\ resumeMode
    /\ directory = <<"A.txt", "B.pdf", "C.MD">>
    /\ UploadedFilesOf(tracker, ragStoreName) = <<"B.pdf">>
    /\ \E s \in DOMAIN tracker : s # ragStoreName /\ "A.txt" \in Range(tracker[s].uploadedFiles)
    /\ filesToUpload = <<"A.txt", "C.MD">>
    /\ skipped = <<"B.pdf">>

\* ------------------------------------------------------------------------
\* Sync runs of POST /api/rag-store/create on one store
\* ------------------------------------------------------------------------
\* the ledger when the target store s1 was just created: an older store has an entry
SyncLedger == [s \in {"s2"} |-> [uploadedFiles |-> <<"A.txt">>, lastUpdate |-> 0]]

\* the directory listing of length k
SyncListing(k) == [j \in 1..k |-> SyncCycle[((j - 1) % Len(SyncCycle)) + 1]]

Init ==
    /\ now = 0
    /\ tracker = SyncLedger
    /\ listed = {}
    /\ directory \in {SyncListing(k) : k \in 0..MaxSyncLen}
    /\ NothingIngested
    /\ isNew = TRUE
    /\ IdleRun
    /\ NoCall
    /\ NoHistory
    /\ NoDirectory
    /\ NoRequest
    /\ NoLock

\* if (isNew || forceReload || resumeMode) uploadDirectoryToRagStore(...)
SyncStart ==
    /\ pc = "idle"
    /\ \E resume \in BOOLEAN :
         /\ isNew \/ resume
         /\ UploadDirectoryStart(resume)
    /\ isNew' = FALSE

\* uploadDirectoryToRagStore returned its result, the request ends
Return ==
    /\ pc = "done"
    /\ prevClean' = (failed = <<>>)
    /\ crashed' = FALSE
    /\ EndRun
    /\ UNCHANGED <<ledgerVars, remoteVars, frameVars, isNew, callVars>>
    /\ prevDone' = {}
    /\ UNCHANGED <<outcome, everSuccessful, everFailed, trackerAtStart, doneInRun,
                   repeatedAdd, attempted, progress, progressAt>>

\* uploadDirectoryToRagStore threw before the loop, the request ends with an error
RunFailed ==
    /\ pc = "error"
    /\ prevClean' = FALSE
    /\ crashed' = FALSE
    /\ EndRun
    /\ UNCHANGED <<ledgerVars, remoteVars, frameVars, isNew, callVars>>
    /\ prevDone' = {}
    /\ UNCHANGED <<outcome, everSuccessful, everFailed, trackerAtStart, doneInRun,
                   repeatedAdd, attempted, progress, progressAt>>

\* the server process is killed during a run and started again
Crash ==
    /\ pc # "idle"
    /\ IF op = "pending" THEN Abandon(fileName) ELSE UNCHANGED remoteVars
    /\ prevDone' = doneInRun
    /\ crashed' = TRUE
    /\ prevClean' = FALSE
    /\ EndRun
    /\ EndCall
    /\ UNCHANGED <<ledgerVars, frameVars, isNew>>
    /\ UNCHANGED <<outcome, everSuccessful, everFailed, trackerAtStart, doneInRun,
                   repeatedAdd, attempted, progress, progressAt>>

Next ==
    \/ SyncStart
    \/ NextFile
    \/ Submit
    \/ PollStep
    \/ PostDelay
    \/ UploadReturned
    \/ UploadThrew
    \/ Return
    \/ RunFailed

Spec == Init /\ [][Next]_vars

\* runs over the longest listing, with crashes
InitCrash == Init /\ directory = SyncListing(MaxSyncLen)

NextCrash ==
    \/ SyncStart
    \/ NextFile
    \/ Submit
    \/ PollStep
    \/ PostDelay
    \/ UploadReturned
    \/ UploadThrew
    \/ Return
    \/ Crash

SpecCrash == InitCrash /\ [][NextCrash]_vars

Recorded == Range(UploadedFilesOf(tracker, ragStoreName))

FailedNames == [k \in 1..Len(failed) |-> failed[k].fileName]

\* C2 as stated: every document is ingested into the target store at most
\* once, and a document a run reported as successful was ingested exactly
\* once.
ExactlyOnceAsClaimed ==
    \A f \in Files :
        /\ ingested[f] <= 1
        /\ (f \in everSuccessful) => ingested[f] = 1

\* C3: the loop hands every document of the upload set to the uploader, in
\* order, and returns only then; successful lists exactly the documents
\* whose upload returned, failed exactly those whose upload threw, one
\* entry each, both in upload order.
BatchResilience ==
    LET ok(f) == outcome[f] = "ok"
        bad(f) == outcome[f] = "failed"
    IN /\ (pc \in {"loop", "submit", "poll", "returned", "threw"}) =>
             /\ i = Len(successful) + Len(failed)
             /\ attempted = SubSeq(filesToUpload, 1, Len(attempted))
             /\ Len(attempted) \in {i, i + 1}
       /\ (pc = "done") =>
             /\ attempted = filesToUpload
             /\ successful = SelectSeq(filesToUpload, ok)
             /\ FailedNames = SelectSeq(filesToUpload, bad)
             /\ Len(successful) + Len(failed) = Len(filesToUpload)
             /\ \A k \in 1..Len(failed) : failed[k].error.kind = "uploadFailed"

\* a run returned after its first document failed and its second succeeded
BatchFailureThenSuccessReached ==
    /\ pc = "done"
    /\ Len(filesToUpload) = 2
    /\ FailedNames = <<filesToUpload[1]>>
    /\ successful = <<filesToUpload[2]>>

\* C9: over resume runs on the same store and directory, the uploader never
\* works on a file an earlier run reported as successful; the upload set of
\* a run holds exactly the files that failed so far or were never attempted;
\* a resume run after a run without failures has an empty upload set,
\* attempts nothing and leaves the ledger as it was.
IdempotentRerun ==
    /\ (pc \in {"submit", "poll"}) => fileName \notin everSuccessful
    /\ (pc = "loop" /\ i = 0 /\ resumeMode) =>
          Range(filesToUpload) =
              {f \in Range(AllFilesArray(directory)) :
                  \/ f \in everFailed \ everSuccessful
                  \/ f \notin everFailed \cup everSuccessful}
    /\ (pc \in {"loop", "done"} /\ resumeMode /\ prevClean) =>
          /\ filesToUpload = <<>>
          /\ attempted = <<>>
          /\ tracker = trackerAtStart

\* a resume run retries the file that failed and skips the one that succeeded
ResumeRetriesFailedReached ==
    /\ pc = "submit"
    /\ resumeMode
    /\ fileName \in everFailed
    /\ filesToUpload = <<fileName>>
    /\ \E f \in everSuccessful : Includes(skipped, f)

InitWriteFault ==
    /\ now = 0
    /\ tracker = SyncLedger
    /\ listed = {}
    /\ directory = SyncListing(MaxSyncLen)
    /\ NothingIngested
    /\ isNew = TRUE
    /\ IdleRun
    /\ NoCall
    /\ NoHistory
    /\ stores = <<>>
    /\ nextStore = 1
    /\ faults = {"write"}
    /\ lastCall = NoDirectoryCall
    /\ prevCall = NoDirectoryCall
    /\ NoRequest
    /\ NoLock

NextWriteFault ==
    \/ SyncStart
    \/ NextFile
    \/ Submit
    \/ PollStep
    \/ PostDelay
    \/ UploadReturned
    \/ UploadThrew
    \/ Return

SpecWriteFault == InitWriteFault /\ [][NextWriteFault]_vars

\* every file whose upload returned is in successful and not in failed
ReturnedAreSuccessful ==
    (pc # "idle") =>
        \A f \in Files :
            (outcome[f] = "ok") => (Includes(successful, f) /\ ~Includes(FailedNames, f))

\* a run returns only after every file of the upload set was handled
ReturnsAfterAll ==
    (pc = "done") =>
        /\ attempted = filesToUpload
        /\ Len(successful) + Len(failed) = Len(filesToUpload)

\* C29: when the upload of a file succeeded and saving the ledger fails,
\* the file is still reported in successful and not in failed, the loop goes
\* on with the next file, and the run completes with a result.
LedgerWriteFailureTolerated ==
    /\ []ReturnedAreSuccessful
    /\ []ReturnsAfterAll
    /\ [][pc = "returned" =>
             /\ pc' = "loop"
             /\ successful' = Append(successful, fileName)
             /\ failed' = failed
             /\ i' = i + 1]_vars

\* a run completed with both files successful although the ledger write for
\* the first one failed: only the second is recorded
UnsavedSuccessReached ==
    /\ pc = "done"
    /\ successful = <<"A.txt", "B.pdf">>
    /\ failed = <<>>
    /\ UploadedFilesOf(tracker, ragStoreName) = <<"B.pdf">>

\* ------------------------------------------------------------------------
\* Store directory calls made one at a time
\* ------------------------------------------------------------------------
\* the accounts an initial state may hold: the k-th store is named
\* RemoteNames[k] and holds any document count; the second store of the
\* listing may belong to another application
InitialAccounts ==
    UNION {{[k \in 1..n |-> [name |-> RemoteNames[k],
                             displayName |-> IF k \in foreign THEN OtherDisplayName
                                             ELSE RAG_STORE_NAME,
                             documents |-> c[k]]] :
               foreign \in {{}, {2}},
               c \in [1..n -> DocCounts]} : n \in 0..MaxInitialStores}

\* a ledger that records A.txt for every store of the account
LedgerOfAccount(remote) ==
    [x \in Range(NamesOf(remote)) |-> [uploadedFiles |-> <<"A.txt">>, lastUpdate |-> 0]]

InitAccount ==
    /\ now = 0
    /\ stores \in InitialAccounts
    /\ tracker = LedgerOfAccount(stores)
    /\ nextStore = Len(stores) + 1
    /\ listed = {}
    /\ directory = <<>>
    /\ NothingIngested
    /\ isNew = FALSE
    /\ IdleRun
    /\ NoCall
    /\ NoHistory
    /\ lastCall = NoDirectoryCall
    /\ prevCall = NoDirectoryCall
    /\ NoRequest
    /\ NoLock

\* every remote call answers
InitStore == InitAccount /\ faults = {}

\* the stores of the account that carry the logical name
Matching(remote) ==
    LET matches(st) == st.displayName = RAG_STORE_NAME
    IN SelectSeq(remote, matches)

\* the remote delete call may throw; every store carries the logical name
InitStoreFaulty == InitAccount /\ faults = {"delete"} /\ Matching(stores) = stores

CallFrame == <<now, listed, ingested, directory, faults, requestVars, lockVars, isNew,
               runVars, callVars, histVars>>

\* await getOrCreateRagStore(RAG_STORE_NAME)
GetOrCreateRagStore ==
    /\ nextStore <= MaxInitialStores + MaxCreates
    /\ \E listOk \in ListOutcomes, createOk \in CreateOutcomes,
          failing \in FailingDeletes(stores, RAG_STORE_NAME) :
         LET r == getOrCreateRagStore(stores, tracker, nextStore, RAG_STORE_NAME,
                                      listOk, createOk, failing)
         IN /\ stores' = r.stores
            /\ tracker' = r.tracker
            /\ nextStore' = r.nextStore
            /\ lastCall' = [fn |-> "getOrCreateRagStore", before |-> stores, after |-> r.stores,
                            threw |-> r.threw, ragStoreName |-> r.ragStoreName,
                            isNew |-> r.isNew, ledger |-> tracker,
                            deletedStores |-> r.deletedStores]
    /\ prevCall' = lastCall
    /\ UNCHANGED CallFrame

\* await getRagStoreByDisplayName(RAG_STORE_NAME)
GetRagStoreByDisplayName ==
    /\ \E listOk \in ListOutcomes :
         lastCall' = [fn |-> "getRagStoreByDisplayName", before |-> stores, after |-> stores,
                      name |-> getRagStoreByDisplayName(stores, RAG_STORE_NAME, listOk)]
    /\ prevCall' = lastCall
    /\ UNCHANGED <<stores, tracker, nextStore>>
    /\ UNCHANGED CallFrame

\* await cleanupDuplicateStores(RAG_STORE_NAME)
CleanupDuplicateStores ==
    /\ \E listOk \in ListOutcomes, failing \in FailingDeletes(stores, RAG_STORE_NAME) :
         LET r == cleanupDuplicateStores(stores, tracker, RAG_STORE_NAME, listOk, failing)
         IN /\ stores' = r.stores
            /\ tracker' = r.tracker
            /\ lastCall' = [fn |-> "cleanupDuplicateStores", before |-> stores,
                            after |-> r.stores, found |-> r.found, deleted |-> r.deleted,
                            kept |-> r.kept, ledger |-> tracker,
                            deletedStores |-> r.deletedStores]
    /\ prevCall' = lastCall
    /\ UNCHANGED nextStore
    /\ UNCHANGED CallFrame

\* await deleteRagStore(name) as DELETE /api/rag-store/:ragStoreName calls it
DeleteRagStore(name) ==
    /\ \E deleteOk \in DeleteOutcomes :
         LET r == deleteRagStore(stores, tracker, name, deleteOk)
         IN /\ stores' = r.stores
            /\ tracker' = r.tracker
            /\ lastCall' = [fn |-> "deleteRagStore", before |-> stores, after |-> r.stores,
                            name |-> name, threw |-> r.threw, ledger |-> tracker,
                            deletedStores |-> IF r.threw THEN <<>> ELSE <<name>>]
    /\ prevCall' = lastCall
    /\ UNCHANGED nextStore
    /\ UNCHANGED CallFrame

NextStore ==
    \/ GetOrCreateRagStore
    \/ GetRagStoreByDisplayName
    \/ CleanupDuplicateStores
    \/ \E name \in Range(NamesOf(stores)) : DeleteRagStore(name)

SpecStore == InitStore /\ [][NextStore]_vars

\* get-or-create and delete calls against a remote whose delete may throw
NextStoreFaulty ==
    \/ GetOrCreateRagStore
    \/ \E name \in Range(NamesOf(stores)) : DeleteRagStore(name)

SpecStoreFaulty == InitStoreFaulty /\ [][NextStoreFaulty]_vars

\* C12: two consecutive calls of getOrCreateRagStore(name), nothing changing
\* the account in between, return the same store; the second call returns
\* isNew = false and creates no store, whether the account held no, one or
\* several stores with the name before the first call.
GetOrCreateIdempotent ==
    (lastCall.fn = "getOrCreateRagStore" /\ prevCall.fn = "getOrCreateRagStore") =>
        /\ lastCall.before = prevCall.after
        /\ lastCall.ragStoreName = prevCall.ragStoreName
        /\ ~lastCall.isNew
        /\ Range(NamesOf(lastCall.after)) \subseteq Range(NamesOf(lastCall.before))

\* the first of two consecutive calls created the store, the second found it
GetOrCreateTwiceReached ==
    /\ prevCall.fn = "getOrCreateRagStore"
    /\ lastCall.fn = "getOrCreateRagStore"
    /\ Len(Matching(prevCall.before)) = 0
    /\ prevCall.isNew
    /\ lastCall.ragStoreName = prevCall.ragStoreName

\* the greatest document count among the stores of arr
MaxDocuments(arr) ==
    CHOOSE m \in {arr[k].documents : k \in 1..Len(arr)} :
        \A k \in 1..Len(arr) : arr[k].documents <= m

DocumentsOf(arr) == [k \in 1..Len(arr) |-> arr[k].documents]

\* C13: with more than one store sharing the display name,
\* getRagStoreByDisplayName returns a store holding the greatest document
\* count, and after cleanupDuplicateStores exactly one store with the name
\* remains: the one holding the greatest count, the one
\* getRagStoreByDisplayName returned for the same account.
DuplicateResolution ==
    /\ (lastCall.fn = "getRagStoreByDisplayName" /\ Len(Matching(lastCall.before)) > 1) =>
          \E k \in 1..Len(lastCall.before) :
              /\ lastCall.before[k].name = lastCall.name
              /\ lastCall.before[k].displayName = RAG_STORE_NAME
              /\ lastCall.before[k].documents = MaxDocuments(Matching(lastCall.before))
    /\ (lastCall.fn = "cleanupDuplicateStores" /\ Len(Matching(lastCall.before)) > 1) =>
          /\ Len(Matching(stores)) = 1
          /\ Includes(lastCall.before, Matching(stores)[1])
          /\ Matching(stores)[1].documents = MaxDocuments(Matching(lastCall.before))
          /\ lastCall.kept = Matching(stores)[1].name
          /\ (prevCall.fn = "getRagStoreByDisplayName") =>
                Matching(stores)[1].name = prevCall.name

\* stores with counts 5, 12, 3: the store with 12 was returned and is the
\* only one left after the cleanup
DuplicatesResolvedReached ==
    /\ prevCall.fn = "getRagStoreByDisplayName"
    /\ lastCall.fn = "cleanupDuplicateStores"
    /\ DocumentsOf(Matching(lastCall.before)) = <<5, 12, 3>>
    /\ DocumentsOf(Matching(stores)) = <<12>>
    /\ prevCall.name = Matching(stores)[1].name

\* C24: getRagStoreByDisplayName returns none when no store has the display
\* name, the single match when there is one, and otherwise the match with
\* the greatest document count (a count the listing leaves out read as 0),
\* among matches tied for it the first of the listing.
CanonicalSelection ==
    (lastCall.fn = "getRagStoreByDisplayName") =>
        LET m == Matching(lastCall.before)
        IN /\ (Len(m) = 0) => lastCall.name = "null"
           /\ (Len(m) = 1) => lastCall.name = m[1].name
           /\ (Len(m) > 1) =>
                 \E k \in 1..Len(m) :
                     /\ lastCall.name = m[k].name
                     /\ \A j \in 1..Len(m) : m[j].documents <= m[k].documents
                     /\ \A j \in 1..(k - 1) : m[j].documents < m[k].documents

\* the second and the third store tie for the greatest count: the second is returned
CanonicalTieReached ==
    /\ lastCall.fn = "getRagStoreByDisplayName"
    /\ DocumentsOf(lastCall.before) = <<0, 12, 12>>
    /\ Matching(lastCall.before) = lastCall.before
    /\ lastCall.name = "s2"

\* C14 as stated: after every call of getOrCreateRagStore, whatever the
\* delete calls it issued did, at most one store with the display name
\* exists.
SelfHealingAsClaimed ==
    (lastCall.fn = "getOrCreateRagStore") => Len(Matching(stores)) <= 1

\* ------------------------------------------------------------------------
\* One request POST /api/rag-store/create from store resolution to the
\* final event
\* ------------------------------------------------------------------------
\* the document counts of the stores of the initial account, by position
SyncCounts == <<5, 12, 3>>

SyncAccount(n) ==
    [k \in 1..n |-> [name |-> RemoteNames[k],
                     displayName |-> RAG_STORE_NAME,
                     documents |-> SyncCounts[((k - 1) % Len(SyncCounts)) + 1]]]

\* the listings of the documents directory
SyncDirectories == {<<"N.bin">>, <<"A.txt", "N.bin", "C.MD">>}

InitSync ==
    /\ now = 0
    /\ stores \in {SyncAccount(n) : n \in 0..MaxInitialStores}
    /\ tracker = LedgerOfAccount(stores)
    /\ nextStore = Len(stores) + 1
    /\ faults = {}
    /\ listed = {}
    /\ directory \in SyncDirectories
    /\ NothingIngested
    /\ isNew = FALSE
    /\ IdleRun
    /\ NoCall
    /\ NoHistory
    /\ lastCall = NoDirectoryCall
    /\ prevCall = NoDirectoryCall
    /\ NoRequest
    /\ NoLock

DocumentsOfStore(remote, name) ==
    IF \E k \in 1..Len(remote) : remote[k].name = name
    THEN (CHOOSE st \in Range(remote) : st.name = name).documents
    ELSE 0

\* store resolution of the handler: with forceReload the store
\* getRagStoreByDisplayName names is deleted first, then getOrCreateRagStore
resolveStore(remote, file, next, force, listOk, createOk, deleteOk, failing) ==
    LET existingStoreName == getRagStoreByDisplayName(remote, RAG_STORE_NAME, listOk)
        del == IF force /\ existingStoreName # "null"
               THEN deleteRagStore(remote, file, existingStoreName, deleteOk)
               ELSE [stores |-> remote, tracker |-> file, threw |-> FALSE]
        result == getOrCreateRagStore(del.stores, del.tracker, next, RAG_STORE_NAME,
                                      listOk, createOk, failing)
        forced == IF force /\ existingStoreName # "null" /\ ~del.threw
                  THEN <<existingStoreName>> ELSE <<>>
    IN IF del.threw
       THEN [stores |-> remote, tracker |-> file, nextStore |-> next, threw |-> TRUE,
             ragStoreName |-> "null", isNew |-> FALSE, deletedStores |-> <<>>]
       ELSE [result EXCEPT !.deletedStores = forced \o @]

\* the handler up to the upload decision
ResolveStore ==
    /\ pc = "idle"
    /\ completion = NoEvent
    /\ nextStore <= MaxInitialStores + MaxCreates
    /\ \E force \in BOOLEAN, resume \in BOOLEAN, listOk \in ListOutcomes,
          createOk \in CreateOutcomes, deleteOk \in DeleteOutcomes,
          failing \in FailingDeletes(stores, RAG_STORE_NAME) :
         LET r == resolveStore(stores, tracker, nextStore, force, listOk, createOk,
                               deleteOk, failing)
         IN /\ forceReload' = force
            /\ resumeMode' = resume
            /\ stores' = r.stores
            /\ tracker' = r.tracker
            /\ nextStore' = r.nextStore
            /\ isNew' = r.isNew
            /\ ragStoreName' = IF r.threw THEN ragStoreName ELSE r.ragStoreName
            /\ pc' = IF r.threw THEN "catch" ELSE "resolved"
            /\ resolution' =
                 [before |-> stores,
                  ledger |-> tracker,
                  canonical |-> getRagStoreByDisplayName(stores, RAG_STORE_NAME, TRUE),
                  created |-> Range(NamesOf(r.stores)) \ Range(NamesOf(stores)),
                  documents |-> DocumentsOfStore(r.stores, r.ragStoreName),
                  listOk |-> listOk]
    /\ UNCHANGED <<now, listed, ingested, directory, faults, lastCall, prevCall, completion,
                   lockVars, filesToUpload, skipped, successful, failed,
                   uploadedInSession, i, callVars, histVars>>

\* an upload decision that forgets the resume flag
ShouldUploadNewOrForced(new, force, resume) == new \/ force

\* if (isNew || forceReload || resumeMode)
ShouldUpload(new, force, resume) == new \/ force \/ resume

\* the upload decision and, when it says so, uploadDirectoryToRagStore up to
\* its loop
Decide ==
    /\ pc = "resolved"
    /\ IF ShouldUpload(isNew, forceReload, resumeMode)
       THEN UploadDirectoryStart(resumeMode)
       ELSE /\ pc' = "cached"
            /\ trackerAtStart' = tracker
            /\ UNCHANGED <<ledgerVars, remoteVars, frameVars, ragStoreName, resumeMode,
                           filesToUpload, skipped, successful, failed, uploadedInSession,
                           i, callVars>>
            /\ UNCHANGED <<outcome, everSuccessful, everFailed, prevClean, doneInRun,
                           prevDone, crashed, repeatedAdd, attempted, progress, progressAt>>
    /\ UNCHANGED isNew

\* the count the handler reads from the final listing
documentCount(remote, name, listOk) ==
    LET listing == listRagStores(remote, listOk)
        found(st) == st.name = name
        finalStore == SelectSeq(listing, found)
    IN IF Len(finalStore) = 0 THEN 0
       ELSE parseInt(OrZero(finalStore[1].activeDocumentsCount))

\* the end of the try block: the final listing and the complete event
Complete ==
    /\ pc \in {"done", "cached"}
    /\ \E listOk \in ListOutcomes :
         completion' = [type |-> "complete",
                        ragStoreName |-> ragStoreName,
                        fileNames |-> successful,
                        skippedFiles |-> skipped,
                        failedFiles |-> failed,
                        cached |-> (~isNew /\ ~forceReload /\ ~resumeMode),
                        resumeMode |-> resumeMode,
                        documentCount |-> documentCount(stores, ragStoreName, listOk)]
    /\ pc' = "ended"
    /\ UNCHANGED <<ledgerVars, remoteVars, directory, storeVars, forceReload, resolution,
                   lockVars, isNew, ragStoreName, resumeMode, filesToUpload, skipped,
                   successful, failed, uploadedInSession, i, callVars, histVars>>

\* the catch block of the handler: the error event
Fail ==
    /\ pc \in {"error", "catch"}
    /\ completion' = [type |-> "error"]
    /\ pc' = "ended"
    /\ UNCHANGED <<ledgerVars, remoteVars, directory, storeVars, forceReload, resolution,
                   lockVars, isNew, ragStoreName, resumeMode, filesToUpload, skipped,
                   successful, failed, uploadedInSession, i, callVars, histVars>>

NextSync ==
    \/ ResolveStore
    \/ Decide
    \/ NextFile
    \/ Submit
    \/ PollStep
    \/ PostDelay
    \/ UploadReturned
    \/ UploadThrew
    \/ Complete
    \/ Fail

SpecSync == InitSync /\ [][NextSync]_vars

\* the names of the listing that are documents
DocumentsIn(dir) ==
    LET isDocument(name) == name \in Files
    IN SelectSeq(dir, isDocument)

UploadPositions == {"loop", "submit", "poll", "returned", "threw", "done", "error"}

\* C11: when no store carries the logical name and the directory holds n
\* distinct documents whose uploads all succeed, the run creates exactly one
\* store, uploads all n documents into it, the ledger entry of that store
\* holds exactly those n filenames, successful has length n, and failed and
\* skipped are empty.
NewStoreEndToEnd ==
    (/\ pc = "ended"
     /\ completion.type = "complete"
     /\ Len(Matching(resolution.before)) = 0
     /\ IsDupFree(directory)
     /\ \A f \in Range(attempted) : outcome[f] = "ok") =>
        /\ resolution.created = {ragStoreName}
        /\ NamesOf(Matching(stores)) = <<ragStoreName>>
        /\ isNew
        /\ successful = DocumentsIn(directory)
        /\ \A f \in Range(DocumentsIn(directory)) : ingested[f] >= 1
        /\ DocumentsOfStore(stores, ragStoreName) >= Len(DocumentsIn(directory))
        /\ UploadedFilesOf(tracker, ragStoreName) = DocumentsIn(directory)
        /\ completion.fileNames = successful
        /\ Len(completion.fileNames) = Len(DocumentsIn(directory))
        /\ completion.failedFiles = <<>>
        /\ completion.skippedFiles = <<>>

\* a run on an account without a store uploaded both documents of the directory
NewStoreSyncReached ==
    /\ pc = "ended"
    /\ completion.type = "complete"
    /\ resolution.before = <<>>
    /\ ~forceReload
    /\ ~resumeMode
    /\ completion.fileNames = <<"A.txt", "C.MD">>
    /\ UploadedFilesOf(tracker, ragStoreName) = <<"A.txt", "C.MD">>

ForceReloadFreshAsClaimed ==
    (forceReload /\ pc \in {"resolved", "loop"} /\ attempted = <<>>) =>
        /\ ~Includes(NamesOf(stores), resolution.canonical)
        /\ isNew
        /\ ragStoreName \in resolution.created
        /\ DocumentsOfStore(stores, ragStoreName) = 0

\* C20 as stated: one progress event (index, total, fileName) per file of
\* the upload set, emitted after the upload attempt of that file has
\* finished, and for a file that succeeded after the ledger write for it.
ProgressOrderingAsClaimed ==
    /\ (pc = "done") =>
          /\ Len(progress) = Len(filesToUpload)
          /\ \A k \in 1..Len(progress) :
                progress[k] = [current |-> k, total |-> Len(filesToUpload),
                               fileName |-> filesToUpload[k]]
    /\ \A k \in 1..Len(progress) :
          /\ progressAt[k].attemptEnded
          /\ (outcome[progress[k].fileName] = "ok") => progressAt[k].recorded

\* the request decided to upload and the directory holds no supported file
EmptyDirectoryRun ==
    /\ pc \notin {"idle", "resolved", "catch"}
    /\ resolution # NoResolution
    /\ ShouldUpload(isNew, forceReload, resumeMode)
    /\ Len(AllFilesArray(directory)) = 0

InitListFault ==
    /\ now = 0
    /\ stores \in {SyncAccount(n) : n \in 0..1}
    /\ tracker = LedgerOfAccount(stores)
    /\ nextStore = Len(stores) + 1
    /\ faults = {"list"}
    /\ listed = {}
    /\ directory \in SyncDirectories
    /\ NothingIngested
    /\ isNew = FALSE
    /\ IdleRun
    /\ NoCall
    /\ NoHistory
    /\ lastCall = NoDirectoryCall
    /\ prevCall = NoDirectoryCall
    /\ NoRequest
    /\ NoLock

SpecListFault == InitListFault /\ [][NextSync]_vars

\* C30 as stated: when the list call fails during store resolution, the run
\* ends with an error to the caller, no remote store is created and no
\* document is uploaded.
SetupFailureFatalAsClaimed ==
    (pc # "idle" /\ ~resolution.listOk) =>
        /\ pc \in {"catch", "ended"}
        /\ (pc = "ended") => completion.type = "error"
        /\ resolution.created = {}
        /\ stores = resolution.before
        /\ attempted = <<>>
        /\ NothingIngested

\* ------------------------------------------------------------------------
\* Store directory calls against a remote whose delete call may throw:
\* DELETE /api/rag-store/:ragStoreName, the forceReload branch of
\* POST /api/rag-store/create, the cleanup of duplicates and the lookups
\* ------------------------------------------------------------------------
\* document counts by position with a tie for the greatest count
TiedCounts == <<3, 12, 12>>

\* accounts whose stores hold the counts 5, 12, 3 or 3, 12, 12 by position,
\* the second store optionally made by another application
DeleteAccounts ==
    {[k \in 1..n |-> [name |-> RemoteNames[k],
                      displayName |-> IF k \in foreign THEN OtherDisplayName
                                      ELSE RAG_STORE_NAME,
                      documents |-> counts[((k - 1) % Len(counts)) + 1]]] :
        foreign \in {{}, {2}}, counts \in {SyncCounts, TiedCounts}, n \in 0..MaxInitialStores}

InitDelete == InitAccount /\ faults = {"delete"} /\ stores \in DeleteAccounts

\* the forceReload branch of the handler: getRagStoreByDisplayName,
\* deleteRagStore of the store it names, then getOrCreateRagStore
ResolveStoreForced ==
    /\ nextStore <= MaxInitialStores + MaxCreates
    /\ \E listOk \in ListOutcomes, createOk \in CreateOutcomes, deleteOk \in DeleteOutcomes,
          failing \in FailingDeletes(stores, RAG_STORE_NAME) :
         LET r == resolveStore(stores, tracker, nextStore, TRUE, listOk, createOk,
                               deleteOk, failing)
         IN /\ stores' = r.stores
            /\ tracker' = r.tracker
            /\ nextStore' = r.nextStore
            /\ lastCall' = [fn |-> "forceReload", before |-> stores, after |-> r.stores,
                            threw |-> r.threw, ragStoreName |-> r.ragStoreName,
                            isNew |-> r.isNew, ledger |-> tracker,
                            deletedStores |-> r.deletedStores]
    /\ prevCall' = lastCall
    /\ UNCHANGED CallFrame

NextDelete ==
    \/ \E name \in Range(NamesOf(stores)) : DeleteRagStore(name)
    \/ ResolveStoreForced
    \/ CleanupDuplicateStores
    \/ GetOrCreateRagStore
    \/ GetRagStoreByDisplayName

SpecDelete == InitDelete /\ [][NextDelete]_vars

\* the calls of the store directory that delete stores
DeletingCalls ==
    {"deleteRagStore", "forceReload", "getOrCreateRagStore", "cleanupDuplicateStores"}

\* C21: after deleteRagStore(storeId) returned without throwing, whether
\* called by the delete endpoint, by force reload or by the cleanup of
\* duplicates, the remote store no longer exists, the ledger has no entry
\* for storeId, and the ledger entries of all other stores are as they were.
DeleteClearsLedger ==
    (lastCall.fn \in DeletingCalls) =>
        LET deleted == Range(lastCall.deletedStores)
        IN /\ \A s \in deleted :
                 /\ Includes(NamesOf(lastCall.before), s)
                 /\ ~Includes(NamesOf(stores), s)
                 /\ s \notin DOMAIN tracker
           /\ DOMAIN tracker = DOMAIN lastCall.ledger \ deleted
           /\ \A s \in DOMAIN tracker : tracker[s] = lastCall.ledger[s]

\* a force reload deleted the canonical store of three while the delete of
\* a duplicate threw; the ledger entries of the two stores left are as they were
DeletesClearedReached ==
    /\ lastCall.fn = "forceReload"
    /\ Len(lastCall.before) = 3
    /\ Len(lastCall.deletedStores) = 1
    /\ Len(Matching(stores)) = 2
    /\ Cardinality(DOMAIN tracker) = 2

\* C25: on the same listing cleanupDuplicateStores, getOrCreateRagStore and
\* getRagStoreByDisplayName select the same store; the cleanup reports found
\* = number of matches, kept = the selected store, which is never among
\* deletedStores and still exists, deleted = length of deletedStores <=
\* found - 1, and with zero or one match it deletes nothing.
ReconciliationAgrees ==
    /\ (Len(Matching(stores)) >= 1) =>
          \A failing \in FailingDeletes(stores, RAG_STORE_NAME) :
              LET selected == getRagStoreByDisplayName(stores, RAG_STORE_NAME, TRUE)
              IN /\ cleanupDuplicateStores(stores, tracker, RAG_STORE_NAME, TRUE,
                                           failing).kept = selected
                 /\ getOrCreateRagStore(stores, tracker, nextStore, RAG_STORE_NAME, TRUE,
                                        TRUE, failing).ragStoreName = selected
    /\ (prevCall.fn = "getRagStoreByDisplayName") =>
          /\ (lastCall.fn = "cleanupDuplicateStores") => lastCall.kept = prevCall.name
          /\ (lastCall.fn = "getOrCreateRagStore" /\ ~lastCall.isNew) =>
                lastCall.ragStoreName = prevCall.name
    /\ (lastCall.fn = "cleanupDuplicateStores") =>
          LET m == Matching(lastCall.before)
          IN /\ lastCall.found = Len(m)
             /\ lastCall.deleted = Len(lastCall.deletedStores)
             /\ (Len(m) >= 1) => lastCall.deleted <= lastCall.found - 1
             /\ ~Includes(lastCall.deletedStores, lastCall.kept)
             /\ Range(lastCall.deletedStores) =
                   Range(NamesOf(lastCall.before)) \ Range(NamesOf(stores))
             /\ Range(lastCall.deletedStores) \subseteq Range(NamesOf(m))
             /\ (Len(m) >= 1) => Includes(NamesOf(Matching(stores)), lastCall.kept)
             /\ (Len(m) <= 1) =>
                   /\ lastCall.deleted = 0
                   /\ stores = lastCall.before
                   /\ lastCall.kept = IF Len(m) = 1 THEN m[1].name ELSE "null"

\* a cleanup of three stores kept the store the lookup had named and deleted
\* one duplicate while the delete of the other threw
ReconciliationPartialReached ==
    /\ prevCall.fn = "getRagStoreByDisplayName"
    /\ lastCall.fn = "cleanupDuplicateStores"
    /\ lastCall.found = 3
    /\ lastCall.deleted = 1
    /\ lastCall.kept = prevCall.name
    /\ Len(Matching(stores)) = 2

\* ------------------------------------------------------------------------
\* The lock around POST /api/rag-store/create: acquireRagStoreLock,
\* releaseRagStoreLock and the try/catch/finally of the handler
\* ------------------------------------------------------------------------
\* an acquire that takes the lock without setting the flag
acquireWithoutFlag(lock, queue, r) ==
    IF ~lock
    THEN [lock |-> lock, queue |-> queue, resolved |-> TRUE]
    ELSE [lock |-> lock, queue |-> Append(queue, r), resolved |-> FALSE]

\* the executor of the promise acquireRagStoreLock returns, run by request r
acquireRagStoreLock(lock, queue, r) ==
    IF ~lock
    THEN [lock |-> TRUE, queue |-> queue, resolved |-> TRUE]
    ELSE [lock |-> lock, queue |-> Append(queue, r), resolved |-> FALSE]

\* a release that serves the waiter that came last
releaseNewestWaiter(lock, queue) ==
    IF Len(queue) > 0
    THEN [lock |-> lock, queue |-> SubSeq(queue, 1, Len(queue) - 1), next |-> queue[Len(queue)]]
    ELSE [lock |-> FALSE, queue |-> queue, next |-> 0]

\* releaseRagStoreLock: waitingRequests.shift() and resolve, or clear the flag
releaseRagStoreLock(lock, queue) ==
    IF Len(queue) > 0
    THEN [lock |-> lock, queue |-> Tail(queue), next |-> Head(queue)]
    ELSE [lock |-> FALSE, queue |-> queue, next |-> 0]

\* a handler that releases at the end of the catch block instead of in finally
AfterCatchThrewNoRelease == "done"

\* the catch block threw: the finally block runs
AfterCatchThrew == "finally"

\* positions of a request between the resolution of its acquire and its release
Holding == {"granted", "resolving", "uploading", "completing", "catch", "finally"}

ProcessFrame == <<ledgerVars, remoteVars, directory, storeVars, requestVars, isNew, runVars,
                  callVars, histVars>>

LockFrame == <<ProcessFrame, uploads>>

\* a request arrives: the handler runs up to await acquireRagStoreLock()
Arrive(r) ==
    /\ reqPc[r] = "none"
    /\ LET a == acquireRagStoreLock(ragStoreCreationLock, waitingRequests, r)
       IN /\ ragStoreCreationLock' = a.lock
          /\ waitingRequests' = a.queue
          /\ reqPc' = [reqPc EXCEPT ![r] = IF a.resolved THEN "granted" ELSE "waiting"]
          /\ grants' = IF a.resolved THEN Append(grants, r) ELSE grants
    /\ arrivals' = Append(arrivals, r)
    /\ UNCHANGED releases
    /\ UNCHANGED LockFrame

\* the handler after the await: it enters the try block
EnterTry(r) ==
    /\ reqPc[r] = "granted"
    /\ reqPc' = [reqPc EXCEPT ![r] = "resolving"]
    /\ UNCHANGED <<ragStoreCreationLock, waitingRequests, arrivals, grants, releases>>
    /\ UNCHANGED LockFrame

\* store resolution ends: the run uploads, is a cache hit, or an error was thrown
Resolved(r) ==
    /\ reqPc[r] = "resolving"
    /\ \E to \in {"uploading", "completing", "catch"} : reqPc' = [reqPc EXCEPT ![r] = to]
    /\ UNCHANGED <<ragStoreCreationLock, waitingRequests, arrivals, grants, releases>>
    /\ UNCHANGED LockFrame

\* uploadDirectoryToRagStore returned or threw
Uploaded(r) ==
    /\ reqPc[r] = "uploading"
    /\ \E to \in {"completing", "catch"} : reqPc' = [reqPc EXCEPT ![r] = to]
    /\ UNCHANGED <<ragStoreCreationLock, waitingRequests, arrivals, grants, releases>>
    /\ UNCHANGED LockFrame

\* the complete event is written, or writing it threw
Completed(r) ==
    /\ reqPc[r] = "completing"
    /\ \E to \in {"finally", "catch"} : reqPc' = [reqPc EXCEPT ![r] = to]
    /\ UNCHANGED <<ragStoreCreationLock, waitingRequests, arrivals, grants, releases>>
    /\ UNCHANGED LockFrame

\* the catch block reports the error, or throws while doing so
Reported(r) ==
    /\ reqPc[r] = "catch"
    /\ \E threw \in BOOLEAN :
         reqPc' = [reqPc EXCEPT ![r] = IF threw THEN AfterCatchThrew ELSE "finally"]
    /\ UNCHANGED <<ragStoreCreationLock, waitingRequests, arrivals, grants, releases>>
    /\ UNCHANGED LockFrame

\* the finally block: releaseRagStoreLock()
Finally(r) ==
    /\ reqPc[r] = "finally"
    /\ LET rel == releaseRagStoreLock(ragStoreCreationLock, waitingRequests)
       IN /\ ragStoreCreationLock' = rel.lock
          /\ waitingRequests' = rel.queue
          /\ reqPc' = [x \in Requests |->
                          IF x = r THEN "done"
                          ELSE IF x = rel.next THEN "granted"
                          ELSE reqPc[x]]
          /\ grants' = IF rel.next # 0 THEN Append(grants, rel.next) ELSE grants
    /\ releases' = [releases EXCEPT ![r] = @ + 1]
    /\ UNCHANGED arrivals
    /\ UNCHANGED LockFrame

\* the steps of the handler of request r once it has arrived
Step(r) ==
    \/ EnterTry(r)
    \/ Resolved(r)
    \/ Uploaded(r)
    \/ Completed(r)
    \/ Reported(r)
    \/ Finally(r)

InitLock ==
    /\ now = 0
    /\ tracker = EmptyTracker
    /\ listed = {}
    /\ directory = <<>>
    /\ NothingIngested
    /\ isNew = FALSE
    /\ IdleRun
    /\ NoCall
    /\ NoHistory
    /\ NoDirectory
    /\ NoRequest
    /\ NoLock

NextLock == \E r \in Requests : Arrive(r) \/ Step(r)

\* every remote call and every delay of a handler returns, so a handler that
\* can take a step takes it
SpecLock == InitLock /\ [][NextLock]_vars /\ \A r \in Requests : WF_vars(Step(r))

\* C15: at most one request is between the resolution of its
\* acquireRagStoreLock and its releaseRagStoreLock, and the flag is set
\* while there is one.
MutualExclusion ==
    /\ Cardinality({r \in Requests : reqPc[r] \in Holding}) <= 1
    /\ (\E r \in Requests : reqPc[r] \in Holding) => ragStoreCreationLock

\* one request is uploading while the two others wait in the queue
TwoWaitingOneUploadingReached ==
    /\ \E r \in Requests : reqPc[r] = "uploading"
    /\ Len(waitingRequests) = 2

\* C16: requests that find the lock held are queued and get it in the order
\* in which they called acquireRagStoreLock; none is rejected or lost.
FifoHandOff ==
    /\ grants = SubSeq(arrivals, 1, Len(grants))
    /\ waitingRequests = SubSeq(arrivals, Len(grants) + 1, Len(arrivals))
    /\ \A r \in Requests :
          /\ (reqPc[r] = "waiting") = Includes(waitingRequests, r)
          /\ (reqPc[r] = "none") = ~Includes(arrivals, r)

\* two requests were queued behind the first; the first has released, the
\* second was handed the lock and the third still waits
QueuedServedInOrderReached ==
    /\ Len(arrivals) >= 3
    /\ reqPc[arrivals[1]] = "done"
    /\ reqPc[arrivals[2]] = "granted"
    /\ reqPc[arrivals[3]] = "waiting"
    /\ grants = SubSeq(arrivals, 1, 2)
    /\ releases[arrivals[1]] = 1

ReleasedOnce ==
    /\ \A r \in Requests :
          /\ releases[r] <= 1
          /\ (releases[r] = 1) = (reqPc[r] = "done")
    /\ (\A r \in Requests : reqPc[r] \in {"none", "done"}) => ~ragStoreCreationLock

\* C17: every request that acquired the lock releases it exactly once when
\* it ends, however it ends; a queued request eventually acquires the lock;
\* the lock is free whenever no request is running or waiting.
UnconditionalRelease ==
    /\ []ReleasedOnce
    /\ \A r \in Requests : (reqPc[r] = "waiting") ~> (reqPc[r] \in Holding)
    /\ \A r \in Requests : (reqPc[r] \in Holding) ~> (reqPc[r] = "done")

\* every request has ended, each after one release, and the lock is free
AllReleasedReached ==
    /\ \A r \in Requests : reqPc[r] = "done" /\ releases[r] = 1
    /\ ~ragStoreCreationLock
    /\ Len(grants) = MaxRequests


\* ------------------------------------------------------------------------
\* The uploads of concurrent requests: every request has its own frame of
\* uploadDirectoryToRagStore and of the uploadFileToRagStore calls it started
\* ------------------------------------------------------------------------
\* positions of an uploadFileToRagStore call that has not ended: the submit,
\* the poll loop, the backoff delay, the delay after success
InProgress == {"submit", "poll", "backoff", "delay"}

\* a loop that starts the next upload without waiting for the one before
AwaitedNever(calls) == TRUE

\* await uploadFileToRagStore(ragStoreName, filePath): the loop goes on when
\* the call has returned or thrown
Awaited(calls) == \A k \in 1..Len(calls) : calls[k].phase \notin InProgress

\* the loop of request r starts the upload of its next file
UploadNext(r) ==
    /\ reqPc[r] = "uploading"
    /\ Len(uploads[r]) < MaxUploads
    /\ Awaited(uploads[r])
    /\ uploads' = [uploads EXCEPT ![r] = Append(@, [phase |-> "submit", attempt |-> 0])]
    /\ UNCHANGED <<ragStoreCreationLock, waitingRequests, reqPc, arrivals, grants, releases>>
    /\ UNCHANGED ProcessFrame

\* the catch block of the retry loop of one call
CaughtIn(call) ==
    IF isLastAttempt(call.attempt)
    THEN [call EXCEPT !.phase = "threw"]
    ELSE [call EXCEPT !.phase = "backoff"]

\* one step of call k of request r: the submit returns a handle or throws,
\* a poll finds the operation done, throws or times out, the backoff delay
\* ends and the next attempt starts, the delay after success ends
UploadStep(r, k) ==
    /\ k \in 1..Len(uploads[r])
    /\ LET call == uploads[r][k]
       IN \E to \in {"ok", "throw"} :
            /\ call.phase \in InProgress
            /\ call.phase \in {"backoff", "delay"} => to = "ok"
            /\ uploads' = [uploads EXCEPT ![r][k] =
                             IF to = "throw" THEN CaughtIn(call)
                             ELSE IF call.phase = "submit" THEN [call EXCEPT !.phase = "poll"]
                             ELSE IF call.phase = "poll" THEN [call EXCEPT !.phase = "delay"]
                             ELSE IF call.phase = "delay" THEN [call EXCEPT !.phase = "returned"]
                             ELSE [phase |-> "submit", attempt |-> call.attempt + 1]]
    /\ UNCHANGED <<ragStoreCreationLock, waitingRequests, reqPc, arrivals, grants, releases>>
    /\ UNCHANGED ProcessFrame

\* uploadDirectoryToRagStore of request r returns after its last file, or
\* throws before its first; its frame is gone
UploadDirectoryEnded(r) ==
    /\ reqPc[r] = "uploading"
    /\ Awaited(uploads[r])
    /\ reqPc' = [reqPc EXCEPT ![r] = IF Len(uploads[r]) = 0 THEN "catch" ELSE "completing"]
    /\ uploads' = [uploads EXCEPT ![r] = <<>>]
    /\ UNCHANGED <<ragStoreCreationLock, waitingRequests, arrivals, grants, releases>>
    /\ UNCHANGED ProcessFrame

InitSequential == InitLock

NextSequential ==
    \E r \in Requests :
        \/ Arrive(r)
        \/ EnterTry(r)
        \/ Resolved(r)
        \/ UploadNext(r)
        \/ \E k \in 1..MaxUploads : UploadStep(r, k)
        \/ UploadDirectoryEnded(r)
        \/ Completed(r)
        \/ Reported(r)
        \/ Finally(r)

SpecSequential == InitSequential /\ [][NextSequential]_vars

\* the calls of uploadFileToRagStore of the process that have not ended
UploadsInProgress ==
    {c \in Requests \X (1..MaxUploads) :
        c[2] <= Len(uploads[c[1]]) /\ uploads[c[1]][c[2]].phase \in InProgress}

OneUploadAtATime == Cardinality(UploadsInProgress) <= 1

\* a call starts only when every call the request started before has ended,
\* and only the request that holds the lock has calls that have not ended
StartsAfterEnd ==
    \A r \in Requests :
        /\ Len(uploads'[r]) > Len(uploads[r]) =>
              /\ Len(uploads'[r]) = Len(uploads[r]) + 1
              /\ \A k \in 1..Len(uploads[r]) : uploads[r][k].phase \in {"returned", "threw"}
              /\ reqPc[r] = "uploading"
        /\ \A k \in 1..Len(uploads[r]) :
              uploads[r][k].phase \in InProgress => reqPc[r] = "uploading"

\* C32: at every moment at most one uploadFileToRagStore call of the server
\* process is between its first submit and its end (submit, poll, backoff or
\* the delay after success); a run starts the upload of its next file only
\* after the call for the file before has returned or thrown, and the
\* uploads of concurrent requests do not overlap.
SequentialUploads == []OneUploadAtATime /\ [][StartsAfterEnd]_vars

\* the second request uploads its second file, in the backoff delay after
\* a failed attempt and after its first file failed for good, while the
\* first request has ended and the third waits for the lock
SecondRunUploadingReached ==
    \E r1, r2, r3 \in Requests :
        /\ reqPc[r1] = "done" /\ reqPc[r2] = "uploading" /\ reqPc[r3] = "waiting"
        /\ Len(uploads[r2]) = 2
        /\ uploads[r2][1].phase = "threw"
        /\ uploads[r2][2] = [phase |-> "backoff", attempt |-> 1]


\* ------------------------------------------------------------------------
\* The standalone retry script (retry-failed-files.js) run between the sync
\* runs of the server
\* ------------------------------------------------------------------------
\* const failedFiles = [...]: the names the script carries
failedFiles == <<"B.pdf", "C.MD">>

\* stores.find(s => s.displayName === 'national-security-documents-store')
FindRagStore(remote) ==
    LET found == MatchingStores(listRagStores(remote, TRUE), RAG_STORE_NAME)
    IN IF Len(found) = 0 THEN "null" ELSE found[1].name

\* the account when the first sync run of the server starts: the store it
\* resolved, still empty
RetryAccount ==
    <<[name |-> "s1", displayName |-> RAG_STORE_NAME, documents |-> 0]>>

InitRetry ==
    /\ now = 0
    /\ tracker = SyncLedger
    /\ listed = {}
    /\ directory = SyncListing(MaxSyncLen)
    /\ NothingIngested
    /\ isNew = TRUE
    /\ IdleRun
    /\ NoCall
    /\ NoHistory
    /\ stores = RetryAccount
    /\ nextStore = 2
    /\ faults = {}
    /\ lastCall = NoDirectoryCall
    /\ prevCall = NoDirectoryCall
    /\ NoRequest
    /\ NoLock

ScriptFrame == <<ledgerVars, directory, nextStore, faults, prevCall, requestVars, lockVars,
                 isNew, runVars, callVars, histVars>>

\* retryFailedFiles up to its loop: the store is looked up by display name;
\* without a store the script exits
RetryFailedFiles ==
    /\ pc = "idle"
    /\ lastCall = NoDirectoryCall
    /\ lastCall' = [fn |-> "retryFailedFiles", store |-> FindRagStore(stores),
                    results |-> <<>>]
    /\ UNCHANGED remoteVars
    /\ UNCHANGED ScriptFrame

\* one iteration of the script's loop: uploadLargeFile(ragStore.name, ...)
\* returns {success: true} after the operation was seen done, or
\* {success: false} after its last attempt; a file that does not exist is
\* not uploaded. Nothing is written to .upload-tracker.json.
UploadLargeFile ==
    /\ pc = "idle"
    /\ lastCall.fn = "retryFailedFiles"
    /\ lastCall.store = ragStoreName
    /\ Len(lastCall.results) < Len(failedFiles)
    /\ LET f == failedFiles[Len(lastCall.results) + 1]
       IN \E success \in BOOLEAN :
            /\ ~Includes(directory, f) => ~success
            /\ IF success THEN Ingest(f)
               ELSE IF Includes(directory, f) THEN Abandon(f)
               ELSE UNCHANGED remoteVars
            /\ lastCall' = [lastCall EXCEPT
                              !.results = Append(@, [success |-> success, fileName |-> f])]
    /\ UNCHANGED ScriptFrame

NextRetry ==
    \/ RetryFailedFiles
    \/ UploadLargeFile
    \/ SyncStart
    \/ NextFile
    \/ Submit
    \/ PollStep
    \/ PostDelay
    \/ UploadReturned
    \/ UploadThrew
    \/ Return

SpecRetry == InitRetry /\ [][NextRetry]_vars

\* the files the script uploaded with success
ScriptUploaded ==
    IF lastCall.fn = "retryFailedFiles"
    THEN {lastCall.results[k].fileName : k \in {j \in 1..Len(lastCall.results) :
                                                   lastCall.results[j].success}}
    ELSE {}

\* C33 as stated: every document an entry point of the engine uploaded with
\* success into a store - the sync run or the retry script - is recorded in
\* the ledger entry of that store, and a resume-mode sync run that follows
\* does not hand it to the uploader again.
LedgerRecordsEveryIngestionAsClaimed ==
    /\ \A f \in ScriptUploaded :
          /\ Includes(UploadedFilesOf(tracker, lastCall.store), f)
          /\ resumeMode => ~Includes(filesToUpload, f)
    /\ pc \in {"idle", "done"} =>
          \A k \in 1..Len(successful) :
             Includes(UploadedFilesOf(tracker, ragStoreName), successful[k])


\* ------------------------------------------------------------------------
\* What a run adds to the ledger
\* ------------------------------------------------------------------------
\* the names the ledger entry of the target store holds now and did not hold
\* when the run started
LedgerAdditions ==
    Range(UploadedFilesOf(tracker, ragStoreName))
        \ Range(UploadedFilesOf(trackerAtStart, ragStoreName))

\* a run is past its upload decision and has not ended
InRun == pc \in {"loop", "submit", "poll", "returned", "threw", "done"}

\* C34 as stated: during and at the end of a run the names added to the
\* ledger entry of the target store are exactly the names in successful,
\* each added after its upload returned in this run; a file whose upload
\* threw is in failed and is not added, and successful and failed are
\* disjoint.
LedgerOnlySuccessesAsClaimed ==
    InRun =>
        /\ LedgerAdditions = Range(successful)
        /\ \A f \in LedgerAdditions : outcome[f] = "ok"
        /\ Range(FailedNames) \cap Range(successful) = {}
        /\ Range(FailedNames) \cap LedgerAdditions = {}
        /\ \A f \in Files : outcome[f] = "failed" =>
              f \in Range(FailedNames) /\ f \notin LedgerAdditions


\* ------------------------------------------------------------------------
\* GET /api/rag-store/status before a request POST /api/rag-store/create
\* ------------------------------------------------------------------------
InitStatus ==
    /\ InitSync
    /\ Len(stores) <= 2

\* the JSON answer of the status handler
StatusResponse(remote, file, name) ==
    LET trackedFiles == getUploadedFilesList(file, name, TRUE)
        fileSet == Range(trackedFiles)
    IN [storeName |-> name,
        documentCount |-> documentCount(remote, name, TRUE),
        trackedDocumentCount |-> Len(trackedFiles),
        hasDuplicatesInTracker |-> Cardinality(fileSet) # Len(trackedFiles)]

\* the handler of GET /api/rag-store/status: getOrCreateRagStore, then the
\* listing and the ledger entry of the store it named
StatusQuery ==
    /\ pc = "idle"
    /\ completion = NoEvent
    /\ lastCall = NoDirectoryCall
    /\ nextStore <= MaxInitialStores + MaxCreates
    /\ \E listOk \in ListOutcomes, createOk \in CreateOutcomes,
          failing \in FailingDeletes(stores, RAG_STORE_NAME) :
         LET r == getOrCreateRagStore(stores, tracker, nextStore, RAG_STORE_NAME,
                                      listOk, createOk, failing)
         IN /\ stores' = r.stores
            /\ tracker' = r.tracker
            /\ nextStore' = r.nextStore
            /\ lastCall' = [fn |-> "status", before |-> stores, after |-> r.stores,
                            ledger |-> tracker, ledgerAfter |-> r.tracker,
                            threw |-> r.threw,
                            response |-> IF r.threw THEN [error |-> TRUE]
                                         ELSE StatusResponse(r.stores, r.tracker,
                                                             r.ragStoreName)]
    /\ prevCall' = lastCall
    /\ UNCHANGED CallFrame

NextStatus ==
    \/ StatusQuery
    \/ NextSync

SpecStatus == InitStatus /\ [][NextStatus]_vars

\* C35 as stated: the status query leaves the set of remote stores and the
\* ledger as they were, and a first sync request on an account without a
\* store that follows a status query still sees isNew = true and decides to
\* upload.
StatusReadOnlyAsClaimed ==
    lastCall.fn = "status" =>
        /\ lastCall.after = lastCall.before
        /\ lastCall.ledgerAfter = lastCall.ledger
        /\ (lastCall.before = <<>> /\ pc \in {"resolved", "loop", "error", "cached"}) =>
              isNew /\ pc # "cached"


\* ------------------------------------------------------------------------
\* Concurrent requests at the await points of getOrCreateRagStore: the sync
\* handler calls it after acquireRagStoreLock, the status handler calls it
\* at once
\* ------------------------------------------------------------------------
InitConcurrent ==
    /\ now = 0
    /\ stores \in {SyncAccount(n) : n \in 0..1}
    /\ tracker = LedgerOfAccount(stores)
    /\ nextStore = Len(stores) + 1
    /\ faults = {}
    /\ lastCall = NoDirectoryCall
    /\ prevCall = NoDirectoryCall
    /\ listed = {}
    /\ directory = <<>>
    /\ NothingIngested
    /\ isNew = FALSE
    /\ IdleRun
    /\ NoCall
    /\ NoHistory
    /\ NoRequest
    /\ NoLock

ConcurrentFrame == <<now, listed, ingested, directory, faults, lastCall, prevCall,
                     requestVars, ragStoreCreationLock, waitingRequests, arrivals, grants,
                     releases, uploads, isNew, runVars, callVars, histVars>>

\* getOrCreateRagStore of request r from its start to the answer of
\* await listRagStores(): without a match the call goes on to createRagStore,
\* with matches it names the store to keep and deletes the others
ListMatching(r, at, creating, resolved) ==
    /\ reqPc[r] = at
    /\ LET matchingStores == MatchingStores(listRagStores(stores, TRUE), RAG_STORE_NAME)
           found == getOrCreateRagStore(stores, tracker, nextStore, RAG_STORE_NAME,
                                        TRUE, TRUE, {})
       IN IF Len(matchingStores) = 0
          THEN /\ reqPc' = [reqPc EXCEPT ![r] = creating]
               /\ UNCHANGED <<stores, tracker>>
          ELSE /\ reqPc' = [reqPc EXCEPT ![r] = resolved]
               /\ stores' = found.stores
               /\ tracker' = found.tracker
    /\ UNCHANGED nextStore
    /\ UNCHANGED ConcurrentFrame

\* await createRagStore(displayName) of request r, which saw no match
CreateMissing(r, at, resolved) ==
    /\ reqPc[r] = at
    /\ nextStore <= MaxInitialStores + MaxCreates
    /\ LET made == createRagStore(stores, nextStore, RAG_STORE_NAME)
       IN /\ stores' = made.stores
          /\ nextStore' = made.nextStore
    /\ reqPc' = [reqPc EXCEPT ![r] = resolved]
    /\ UNCHANGED tracker
    /\ UNCHANGED ConcurrentFrame

\* GET /api/rag-store/status arrives: the handler runs up to the first await
\* of getOrCreateRagStore
StatusArrive(r) ==
    /\ reqPc[r] = "none"
    /\ reqPc' = [reqPc EXCEPT ![r] = "status"]
    /\ UNCHANGED <<stores, tracker, nextStore>>
    /\ UNCHANGED ConcurrentFrame

\* POST /api/debug/cleanup-duplicate-stores
CleanupRequest ==
    /\ LET r == cleanupDuplicateStores(stores, tracker, RAG_STORE_NAME, TRUE, {})
       IN /\ stores' = r.stores
          /\ tracker' = r.tracker
    /\ UNCHANGED <<nextStore, reqPc>>
    /\ UNCHANGED ConcurrentFrame

NextConcurrent ==
    \/ \E r \in Requests :
          \/ Arrive(r)
          \/ EnterTry(r)
          \/ ListMatching(r, "resolving", "creating", "uploading")
          \/ CreateMissing(r, "creating", "uploading")
          \/ Uploaded(r)
          \/ Completed(r)
          \/ Reported(r)
          \/ Finally(r)
          \/ StatusArrive(r)
          \/ ListMatching(r, "status", "statusCreating", "done")
          \/ CreateMissing(r, "statusCreating", "done")
    \/ CleanupRequest

SpecConcurrent == InitConcurrent /\ [][NextConcurrent]_vars

\* positions of a request inside a create-if-absent sequence
CreateIfAbsent == {"resolving", "creating", "status", "statusCreating"}

\* C36 as stated: whatever the interleaving of sync requests, status
\* queries and cleanups, at most one store carries the logical name, and a
\* request that is between the list call and the create call of
\* getOrCreateRagStore holds the sync lock.
NoDuplicateStoreAsClaimed ==
    /\ Len(MatchingStores(listRagStores(stores, TRUE), RAG_STORE_NAME)) <= 1
    /\ \A r \in Requests :
          reqPc[r] \in CreateIfAbsent => (Includes(grants, r) /\ releases[r] = 0)


\* ------------------------------------------------------------------------
\* DELETE /api/rag-store/:ragStoreName while a sync run uploads into the
\* store: the delete handler does not take the sync lock
\* ------------------------------------------------------------------------
InitInterleaved == InitRetry

\* the delete request for the store the run uploads into, at any await point
\* of the run
DeleteDuringRun ==
    /\ lastCall = NoDirectoryCall
    /\ pc # "idle"
    /\ DeleteRagStore(ragStoreName)

NextInterleaved ==
    \/ DeleteDuringRun
    \/ SyncStart
    \/ NextFile
    \/ Submit
    \/ PollStep
    \/ PostDelay
    \/ UploadReturned
    \/ UploadThrew
    \/ Return

SpecInterleaved == InitInterleaved /\ [][NextInterleaved]_vars

\* C37 as stated: once the delete of a store has completed the ledger holds
\* no entry for that store at any later time, also when the delete was
\* interleaved with a sync run uploading into the store.
NoEntryForDeletedAsClaimed ==
    (lastCall.fn = "deleteRagStore" /\ ~lastCall.threw) =>
        lastCall.name \notin DOMAIN tracker


\* ------------------------------------------------------------------------
\* Two requests POST /api/rag-store/create one after the other on an account
\* that starts without a store
\* ------------------------------------------------------------------------
InitRepeated ==
    /\ InitSync
    /\ stores = <<>>

\* the first request has ended with the error event and the next one
\* arrives; the documents directory may have changed in between
RequestEnded ==
    /\ pc = "ended"
    /\ completion.type = "error"
    /\ lastCall = NoDirectoryCall
    /\ lastCall' = [fn |-> "syncRequest", type |-> completion.type,
                    created |-> resolution.created, attempted |-> attempted]
    /\ directory' \in SyncDirectories
    /\ completion' = NoEvent
    /\ forceReload' = FALSE
    /\ resolution' = NoResolution
    /\ isNew' = FALSE
    /\ EndRun
    /\ EndCall
    /\ UNCHANGED <<ledgerVars, remoteVars, nextStore, faults, prevCall, lockVars, histVars>>

NextRepeated ==
    \/ RequestEnded
    \/ NextSync

SpecRepeated == InitRepeated /\ [][NextRepeated]_vars

\* the first request created the store and ended with an error before it
\* handed a file to the uploader; the second one has default options and is
\* past its upload decision
AfterFailedFirstRun ==
    /\ lastCall.fn = "syncRequest"
    /\ lastCall.type = "error"
    /\ lastCall.created # {}
    /\ lastCall.attempted = <<>>
    /\ ~forceReload
    /\ ~resumeMode
    /\ pc \notin {"idle", "resolved", "catch"}

\* C38 as stated: a sync request with default options that follows a first
\* request which created the store and aborted before uploading anything
\* uploads the directory and does not complete as a cache hit.
FailedFirstRunNoCacheHitAsClaimed ==
    AfterFailedFirstRun =>
        /\ pc # "cached"
        /\ pc = "ended" => (completion.type = "complete" => ~completion.cached)


\* ------------------------------------------------------------------------
\* addUploadedFile over a ledger file whose read may fail
\* ------------------------------------------------------------------------
\* the outcomes of fs.readFileSync / JSON.parse of the ledger file in this
\* behaviour: the content, or an error (unreadable or corrupt file)
ReadOutcomes == IF "read" \in faults THEN BOOLEAN ELSE {TRUE}

InitReadFault ==
    /\ now = 0
    /\ tracker \in LegacyLedgers
    /\ listed = {}
    /\ directory = <<>>
    /\ NothingIngested
    /\ isNew = FALSE
    /\ IdleRun
    /\ NoCall
    /\ NoHistory
    /\ stores = <<>>
    /\ nextStore = 1
    /\ faults = {"read"}
    /\ lastCall = NoDirectoryCall
    /\ prevCall = NoDirectoryCall
    /\ NoRequest
    /\ NoLock

\* addUploadedFile(s, f): loadUploadTracker returns {} when the read throws
AddUploadedFileRead(s, f) ==
    /\ \E readOk \in ReadOutcomes :
         /\ tracker' = addUploadedFile(tracker, s, f, now, readOk, TRUE)
         /\ lastCall' = [fn |-> "addUploadedFile", store |-> s, file |-> f, at |-> now,
                         ledger |-> tracker, result |-> "void", readOk |-> readOk]
    /\ prevCall' = CallSummary(lastCall)
    /\ UNCHANGED listed
    /\ UNCHANGED TrackerFrame

NextReadFault ==
    \/ \E f \in Files : AddUploadedFileRead("s1", f)
    \/ Tick

SpecReadFault == InitReadFault /\ [][NextReadFault]_vars

\* C39 as stated: after addUploadedFile(s, f) every filename the persisted
\* ledger held before the call, for s and for every other store, is still
\* in it, also when the read of the ledger file inside the call failed.
RecordSuccessKeepsEntriesAsClaimed ==
    lastCall.fn = "addUploadedFile" =>
        \A x \in DOMAIN lastCall.ledger :
            /\ x \in DOMAIN tracker
            /\ Range(lastCall.ledger[x].uploadedFiles) \subseteq Range(tracker[x].uploadedFiles)

====
